---- MODULE Spec2Model ----
(***************************************************************************)
(* A model of the persistent containers of pfds: List, Queue, Set, Map,    *)
(* HashSet and HashMap.  A program holds container versions in slots; an   *)
(* operation reads the version of one slot and writes the version it       *)
(* returns into a slot.  Set, Map, HashSet and HashMap versions are the    *)
(* node structures of the source, as values; List and Queue versions are   *)
(* handles into a heap of reference-counted cells, because List::drop      *)
(* writes into nodes.  Every function below is translated from the         *)
(* function of the same name.                                              *)
(***************************************************************************)
EXTENDS Integers, Sequences, FiniteSets, TLC

VARIABLES
    kind,     \* the container type the program uses
    vers,     \* vers[s]: the container version held in slot s
    abs,      \* abs[s]: the abstract content that version s is expected to hold
    last,     \* the last operation: its name, slots, arguments and result
    status,   \* "ok", or how the process died ("overflow", "panic")
    fed,      \* number of inputs of the scripted workload consumed so far
    heap      \* the reference-counted cells of the List and Queue versions

vars == <<kind, vers, abs, last, status, fed, heap>>

(***************************************************************************)
(* Bounds of the model.                                                    *)
(***************************************************************************)
NSlots == 2
NKeys == 5
NMapKeys == 3
NVals == 2
MaxSize == 5
NHKeys == 4
MaxBranch == 4
StackFrames == 32
NElems == 2
MaxLen == 3
NPKeys == 3
NData == 2
MaxTree == 4
MaxShared == 3

Slots == 1..NSlots
Keys == 1..NKeys
MapKeys == 1..NMapKeys
HKeys == 1..NHKeys
Vals == 1..NVals
Elems == 1..NElems
PKeys == 1..NPKeys
PAltKeys == {k \in PKeys : k % 2 = 1}

\* cells enough for the versions of all slots, each a queue of MaxLen elements
\* (a node, two lists, their Nil cells), and for the cells that an operation
\* or a to_vec() holds while it runs
NCells == (NSlots + 2) * (MaxLen + 3)

Max(a, b) == IF a >= b THEN a ELSE b

RECURSIVE Pow2(_)
Pow2(n) == IF n = 0 THEN 1 ELSE 2 * Pow2(n - 1)

NoOp == [op |-> "init", src |-> 0, dst |-> 0, k |-> 0, v |-> 0, had |-> FALSE, ret |-> 0]

Op(name, i, j, k, v, had, ret) ==
    [op |-> name, src |-> i, dst |-> j, k |-> k, v |-> v, had |-> had, ret |-> ret]

(***************************************************************************)
(* set.rs: the AVL tree of Set.                                            *)
(***************************************************************************)
PanicNode == [t |-> "Panic"]

set_empty == [t |-> "Empty"]

set_one(k) == [t |-> "One", k |-> k]

set_node(h, l, k, r) == [t |-> "Node", h |-> h, l |-> l, k |-> k, r |-> r]

\* a height that takes a One for a tree of height 3
SetNode_height_one_high(t) ==
    CASE t.t = "Empty" -> 0
      [] t.t = "One" -> 3
      [] t.t = "Node" -> t.h

SetNode_height(t) ==
    CASE t.t = "Empty" -> 0
      [] t.t = "One" -> 1
      [] t.t = "Node" -> t.h

\* a make that builds a Node of two Empty children too
set_make_node_always(l, k, r) ==
    IF l.t = "Panic" \/ r.t = "Panic" THEN PanicNode
    ELSE set_node(1 + Max(SetNode_height(l), SetNode_height(r)), l, k, r)

set_make(l, k, r) ==
    IF l.t = "Panic" \/ r.t = "Panic" THEN PanicNode
    ELSE IF l.t = "Empty" /\ r.t = "Empty" THEN set_one(k)
    ELSE set_node(1 + Max(SetNode_height(l), SetNode_height(r)), l, k, r)

\* set_rebalance with the keys of the single rotations exchanged
set_rebalance_swapped(t1, k, t2) ==
    IF t1.t = "Panic" \/ t2.t = "Panic" THEN PanicNode
    ELSE
    LET t1h == SetNode_height(t1)
        t2h == SetNode_height(t2)
    IN  IF t2h > t1h + 2 /\ t2.t = "Node" THEN
            set_make(set_make(t1, t2.k, t2.l), k, t2.r)
        ELSE IF t1h > t2h + 2 /\ t1.t = "Node" THEN
            set_make(t1.l, k, set_make(t1.r, t1.k, t2))
        ELSE set_make(t1, k, t2)

set_rebalance(t1, k, t2) ==
    IF t1.t = "Panic" \/ t2.t = "Panic" THEN PanicNode
    ELSE
    LET t1h == SetNode_height(t1)
        t2h == SetNode_height(t2)
    IN  IF t2h > t1h + 2 THEN
            IF t2.t = "Node" THEN
                IF SetNode_height(t2.l) > t1h + 1 THEN
                    IF t2.l.t = "Node" THEN
                        set_make(set_make(t1, k, t2.l.l), t2.l.k,
                                 set_make(t2.l.r, t2.k, t2.r))
                    ELSE PanicNode
                ELSE set_make(set_make(t1, k, t2.l), t2.k, t2.r)
            ELSE PanicNode
        ELSE IF t1h > t2h + 2 THEN
            IF t1.t = "Node" THEN
                IF SetNode_height(t1.r) > t2h + 1 THEN
                    IF t1.r.t = "Node" THEN
                        set_make(set_make(t1.l, t1.k, t1.r.l), t1.r.k,
                                 set_make(t1.r.r, k, t2))
                    ELSE PanicNode
                ELSE set_make(t1.l, t1.k, set_make(t1.r, k, t2))
            ELSE PanicNode
        ELSE set_make(t1, k, t2)

RECURSIVE set_insert(_, _)
set_insert(t, k) ==
    CASE t.t = "Node" ->
            IF k < t.k THEN set_rebalance(set_insert(t.l, k), t.k, t.r)
            ELSE IF k = t.k THEN set_node(t.h, t.l, t.k, t.r)
            ELSE IF k > t.k THEN set_rebalance(t.l, t.k, set_insert(t.r, k))
            ELSE PanicNode
      [] t.t = "One" ->
            IF k < t.k THEN set_node(2, set_empty, k, set_one(t.k))
            ELSE IF k = t.k THEN set_one(t.k)
            ELSE IF k > t.k THEN set_node(2, set_one(t.k), k, set_empty)
            ELSE PanicNode
      [] t.t = "Empty" -> set_one(k)
      [] OTHER -> PanicNode

\* splice_out_successor returns the pair (key, rest) as a record
RECURSIVE set_splice_out_successor(_)
set_splice_out_successor(t) ==
    CASE t.t = "Empty" -> [k |-> 0, n |-> PanicNode]
      [] t.t = "One" -> [k |-> t.k, n |-> set_empty]
      [] t.t = "Node" ->
            IF t.l.t = "Empty" THEN [k |-> t.k, n |-> t.r]
            ELSE LET s == set_splice_out_successor(t.l)
                 IN  [k |-> s.k, n |-> set_make(s.n, t.k, t.r)]
      [] OTHER -> [k |-> 0, n |-> PanicNode]

RECURSIVE set_remove(_, _)
set_remove(t, k) ==
    CASE t.t = "Empty" -> set_empty
      [] t.t = "One" -> IF k = t.k THEN set_empty ELSE set_one(t.k)
      [] t.t = "Node" ->
            IF k < t.k THEN set_rebalance(set_remove(t.l, k), t.k, t.r)
            ELSE IF k = t.k THEN
                IF t.l.t = "Empty" THEN t.r
                ELSE IF t.r.t = "Empty" THEN t.l
                ELSE LET s == set_splice_out_successor(t.r)
                     IN  set_make(t.l, s.k, s.n)
            ELSE IF k > t.k THEN set_rebalance(t.l, t.k, set_remove(t.r, k))
            ELSE PanicNode
      [] OTHER -> PanicNode

\* find returns Some(node) or None; the model returns whether it is Some
RECURSIVE set_find(_, _)
set_find(t, k) ==
    CASE t.t = "Empty" -> FALSE
      [] t.t = "One" -> k = t.k
      [] t.t = "Node" ->
            IF k < t.k THEN set_find(t.l, k)
            ELSE IF k = t.k THEN TRUE
            ELSE set_find(t.r, k)
      [] OTHER -> FALSE

RECURSIVE set_to_vec(_)
set_to_vec(t) ==
    CASE t.t = "Empty" -> <<>>
      [] t.t = "One" -> <<t.k>>
      [] t.t = "Node" -> set_to_vec(t.l) \o <<t.k>> \o set_to_vec(t.r)
      [] OTHER -> <<>>

Set_empty == [size |-> 0, n |-> set_empty]

Set_insert(s, k) == [n |-> set_insert(s.n, k), size |-> s.size + 1]

Set_remove(s, k) ==
    LET size == IF set_find(s.n, k) THEN s.size - 1 ELSE s.size
    IN  [n |-> set_remove(s.n, k), size |-> size]

Set_exist(s, k) == set_find(s.n, k)

Set_to_vec(s) == set_to_vec(s.n)

Set_height(s) == SetNode_height(s.n)

Set_len(s) == s.size

(***************************************************************************)
(* map.rs: the AVL tree of Map.                                            *)
(***************************************************************************)
None == <<>>

Some(v) == <<v>>

MapNode_empty == [t |-> "Empty"]

MapNode_one(k, v) == [t |-> "One", k |-> k, v |-> v]

MapNode_node(h, l, k, v, r) == [t |-> "Node", h |-> h, l |-> l, k |-> k, v |-> v, r |-> r]

MapNode_height(t) ==
    CASE t.t = "Empty" -> 0
      [] t.t = "One" -> 1
      [] t.t = "Node" -> t.h

MapNode_make(l, k, v, r) ==
    IF l.t = "Panic" \/ r.t = "Panic" THEN PanicNode
    ELSE IF l.t = "Empty" /\ r.t = "Empty" THEN MapNode_one(k, v)
    ELSE MapNode_node(1 + Max(MapNode_height(l), MapNode_height(r)), l, k, v, r)

MapNode_rebalance(t1, k, v, t2) ==
    IF t1.t = "Panic" \/ t2.t = "Panic" THEN PanicNode
    ELSE
    LET t1h == MapNode_height(t1)
        t2h == MapNode_height(t2)
    IN  IF t2h > t1h + 2 THEN
            IF t2.t = "Node" THEN
                IF MapNode_height(t2.l) > t1h + 1 THEN
                    IF t2.l.t = "Node" THEN
                        MapNode_make(MapNode_make(t1, k, v, t2.l.l), t2.l.k, t2.l.v,
                                     MapNode_make(t2.l.r, t2.k, t2.v, t2.r))
                    ELSE PanicNode
                ELSE MapNode_make(MapNode_make(t1, k, v, t2.l), t2.k, t2.v, t2.r)
            ELSE PanicNode
        ELSE IF t1h > t2h + 2 THEN
            IF t1.t = "Node" THEN
                IF MapNode_height(t1.r) > t2h + 1 THEN
                    IF t1.r.t = "Node" THEN
                        MapNode_make(MapNode_make(t1.l, t1.k, t1.v, t1.r.l), t1.r.k, t1.r.v,
                                     MapNode_make(t1.r.r, k, v, t2))
                    ELSE PanicNode
                ELSE MapNode_make(t1.l, t1.k, t1.v, MapNode_make(t1.r, k, v, t2))
            ELSE PanicNode
        ELSE MapNode_make(t1, k, v, t2)

RECURSIVE MapNode_insert(_, _, _)
MapNode_insert(t, k, v) ==
    CASE t.t = "Node" ->
            IF k < t.k THEN MapNode_rebalance(MapNode_insert(t.l, k, v), t.k, t.v, t.r)
            ELSE IF k = t.k THEN MapNode_node(t.h, t.l, t.k, t.v, t.r)
            ELSE IF k > t.k THEN MapNode_rebalance(t.l, t.k, t.v, MapNode_insert(t.r, k, v))
            ELSE PanicNode
      [] t.t = "One" ->
            IF k < t.k THEN MapNode_node(2, MapNode_empty, k, v, MapNode_one(t.k, t.v))
            ELSE IF k = t.k THEN MapNode_one(t.k, t.v)
            ELSE IF k > t.k THEN MapNode_node(2, MapNode_one(t.k, t.v), k, v, MapNode_empty)
            ELSE PanicNode
      [] t.t = "Empty" -> MapNode_one(k, v)
      [] OTHER -> PanicNode

\* splice_out_successor returns the triple (key, value, rest) as a record
RECURSIVE MapNode_splice_out_successor(_)
\* a splice that hands up the value of the node it passes through
RECURSIVE MapNode_splice_out_successor_value_kept(_)
MapNode_splice_out_successor_value_kept(t) ==
    CASE t.t = "Empty" -> [k |-> 0, v |-> 0, n |-> PanicNode]
      [] t.t = "One" -> [k |-> t.k, v |-> t.v, n |-> MapNode_empty]
      [] t.t = "Node" ->
            IF t.l.t = "Empty" THEN [k |-> t.k, v |-> t.v, n |-> t.r]
            ELSE LET s == MapNode_splice_out_successor_value_kept(t.l)
                 IN  [k |-> s.k, v |-> t.v, n |-> MapNode_make(s.n, t.k, t.v, t.r)]
      [] OTHER -> [k |-> 0, v |-> 0, n |-> PanicNode]

MapNode_splice_out_successor(t) ==
    CASE t.t = "Empty" -> [k |-> 0, v |-> 0, n |-> PanicNode]
      [] t.t = "One" -> [k |-> t.k, v |-> t.v, n |-> MapNode_empty]
      [] t.t = "Node" ->
            IF t.l.t = "Empty" THEN [k |-> t.k, v |-> t.v, n |-> t.r]
            ELSE LET s == MapNode_splice_out_successor(t.l)
                 IN  [k |-> s.k, v |-> s.v, n |-> MapNode_make(s.n, t.k, t.v, t.r)]
      [] OTHER -> [k |-> 0, v |-> 0, n |-> PanicNode]

RECURSIVE MapNode_remove(_, _)
MapNode_remove(t, k) ==
    CASE t.t = "Empty" -> MapNode_empty
      [] t.t = "One" -> IF k = t.k THEN MapNode_empty ELSE MapNode_one(t.k, t.v)
      [] t.t = "Node" ->
            IF k < t.k THEN MapNode_rebalance(MapNode_remove(t.l, k), t.k, t.v, t.r)
            ELSE IF k = t.k THEN
                IF t.l.t = "Empty" THEN t.r
                ELSE IF t.r.t = "Empty" THEN t.l
                ELSE LET s == MapNode_splice_out_successor(t.r)
                     IN  MapNode_make(t.l, s.k, s.v, s.n)
            ELSE IF k > t.k THEN MapNode_rebalance(t.l, t.k, t.v, MapNode_remove(t.r, k))
            ELSE PanicNode
      [] OTHER -> PanicNode

RECURSIVE MapNode_find(_, _)
MapNode_find(t, k) ==
    CASE t.t = "Empty" -> None
      [] t.t = "One" -> IF k = t.k THEN Some(t.v) ELSE None
      [] t.t = "Node" ->
            IF k < t.k THEN MapNode_find(t.l, k)
            ELSE IF k = t.k THEN Some(t.v)
            ELSE MapNode_find(t.r, k)
      [] OTHER -> None

RECURSIVE MapNode_to_vec(_)
MapNode_to_vec(t) ==
    CASE t.t = "Empty" -> <<>>
      [] t.t = "One" -> << <<t.k, t.v>> >>
      [] t.t = "Node" -> MapNode_to_vec(t.l) \o << <<t.k, t.v>> >> \o MapNode_to_vec(t.r)
      [] OTHER -> <<>>

Map_empty == [size |-> 0, n |-> MapNode_empty]

Map_insert(s, k, v) == [n |-> MapNode_insert(s.n, k, v), size |-> s.size + 1]

\* a remove that counts one key less whether the key was found or not
Map_remove_counted(s, k) == [n |-> MapNode_remove(s.n, k), size |-> s.size - 1]

Map_remove(s, k) ==
    LET size == IF MapNode_find(s.n, k) # None THEN s.size - 1 ELSE s.size
    IN  [n |-> MapNode_remove(s.n, k), size |-> size]

Map_exist(s, k) == MapNode_find(s.n, k) # None

Map_find(s, k) == MapNode_find(s.n, k)

Map_to_vec(s) == MapNode_to_vec(s.n)

Map_height(s) == MapNode_height(s.n)

Map_len(s) == s.size

(***************************************************************************)
(* The hash trie parameters and the keys' hashes.  A hash is a 64-bit word, *)
(* kept as the set of the positions of its 1 bits (bit 0 is the lowest).   *)
(***************************************************************************)
TRIE_BITS == 5

TRIE_SIZE == Pow2(TRIE_BITS)

TRIE_MASK == TRIE_SIZE - 1

UsizeBits == 64

\* the hashes of the keys a program uses: keys 1 and 3 share the slot of
\* level 0 and part at level 1, key 2 has a slot of its own, keys 3 and 4 are
\* distinct keys with the same 64-bit hash, keys 11 and 13 differ from key 1
\* and from each other in the four highest bits only
hash(k) ==
    CASE k = 1 -> {}
      [] k = 2 -> {0}
      [] k = 3 -> {TRIE_BITS}
      [] k = 4 -> {TRIE_BITS}
      [] k = 11 -> {UsizeBits - 4}
      [] k = 13 -> {UsizeBits - 1}
      [] OTHER -> {0, k}

RECURSIVE BitsValue(_, _, _)
BitsValue(kh, from, n) ==
    IF n = 0 THEN 0
    ELSE (IF from \in kh THEN 1 ELSE 0) + 2 * BitsValue(kh, from + 1, n - 1)

\* an index of the three low bits of the slice only
slot_index_three_bits(kh, l) == BitsValue(kh, l % UsizeBits, 3)

\* kh.wrapping_shr(l) & TRIE_MASK: the shift amount wraps at the word width
\* and the bits shifted in above bit 63 are 0
slot_index(kh, l) == BitsValue(kh, l % UsizeBits, TRIE_BITS)

\* results of the recursive insert / remove: None, Some(node), or the
\* exhaustion of the call stack after StackFrames nested calls
HNone == [o |-> "None"]

HSome(n) == [o |-> "Some", n |-> n]

HOverflow == [o |-> "Overflow"]

OverflowNode == [t |-> "Overflow"]

(***************************************************************************)
(* hashset.rs                                                              *)
(***************************************************************************)
HashSetNode_Empty == [t |-> "Empty"]

HashSetNode_One(kh, k) == [t |-> "One", h |-> kh, k |-> k]

HashSetNode_Node(size, slice) == [t |-> "Node", size |-> size, slice |-> slice]

HashSetNode_new_empty_slice == [i \in 0..(TRIE_SIZE - 1) |-> HashSetNode_Empty]

\* d counts the nested calls of insert
RECURSIVE HashSetNode_insert(_, _, _, _)
\* a variant whose Node arm descends without advancing the shift
RECURSIVE HashSetNode_insert_same_shift(_, _, _, _)
HashSetNode_insert_same_shift(h, l, k, d) ==
    IF d > StackFrames THEN HOverflow
    ELSE
    LET kh == hash(k)
        idx == slot_index(kh, l)
    IN  CASE h.t = "Empty" -> HSome(HashSetNode_One(kh, k))
          [] h.t = "One" ->
                IF kh = h.h /\ k = h.k THEN HNone
                ELSE
                LET slice == [HashSetNode_new_empty_slice EXCEPT ![idx] = HashSetNode_One(kh, k)]
                    idx2 == slot_index(h.h, l)
                IN  IF idx2 # idx
                    THEN HSome(HashSetNode_Node(2,
                                 [slice EXCEPT ![idx2] = HashSetNode_One(h.h, h.k)]))
                    ELSE LET n == HashSetNode_Node(1, slice)
                             r == HashSetNode_insert_same_shift(n, l + TRIE_BITS, h.k, d + 1)
                         IN  IF r.o = "None" THEN HSome(n) ELSE r
          [] h.t = "Node" ->
                LET r == HashSetNode_insert_same_shift(h.slice[idx], l, k, d + 1)
                IN  IF r.o = "Some"
                    THEN HSome(HashSetNode_Node(h.size + 1, [h.slice EXCEPT ![idx] = r.n]))
                    ELSE r

HashSetNode_insert(h, l, k, d) ==
    IF d > StackFrames THEN HOverflow
    ELSE
    LET kh == hash(k)
        idx == slot_index(kh, l)
    IN  CASE h.t = "Empty" -> HSome(HashSetNode_One(kh, k))
          [] h.t = "One" ->
                IF kh = h.h /\ k = h.k THEN HNone
                ELSE
                LET slice == [HashSetNode_new_empty_slice EXCEPT ![idx] = HashSetNode_One(kh, k)]
                    idx2 == slot_index(h.h, l)
                IN  IF idx2 # idx
                    THEN HSome(HashSetNode_Node(2,
                                 [slice EXCEPT ![idx2] = HashSetNode_One(h.h, h.k)]))
                    ELSE LET n == HashSetNode_Node(1, slice)
                             r == HashSetNode_insert(n, l, h.k, d + 1)
                         IN  IF r.o = "None" THEN HSome(n) ELSE r
          [] h.t = "Node" ->
                LET r == HashSetNode_insert(h.slice[idx], l + TRIE_BITS, k, d + 1)
                IN  IF r.o = "Some"
                    THEN HSome(HashSetNode_Node(h.size + 1, [h.slice EXCEPT ![idx] = r.n]))
                    ELSE r

RECURSIVE HashSetNode_exist(_, _, _)
HashSetNode_exist(h, l, k) ==
    LET kh == hash(k)
        idx == slot_index(kh, l)
    IN  CASE h.t = "Empty" -> FALSE
          [] h.t = "One" -> kh = h.h /\ k = h.k
          [] h.t = "Node" -> HashSetNode_exist(h.slice[idx], l + TRIE_BITS, k)

RECURSIVE HashSetNode_remove(_, _, _)
HashSetNode_remove(h, l, k) ==
    LET kh == hash(k)
        idx == slot_index(kh, l)
    IN  CASE h.t = "Empty" -> HNone
          [] h.t = "One" -> IF kh = h.h /\ k = h.k THEN HSome(HashSetNode_Empty) ELSE HNone
          [] h.t = "Node" ->
                LET r == HashSetNode_remove(h.slice[idx], l + TRIE_BITS, k)
                IN  IF r.o = "None" THEN HNone
                    ELSE IF r.n.t = "Empty" /\ h.size = 1 THEN HSome(HashSetNode_Empty)
                    ELSE LET new_size == IF r.n.t = "Empty" THEN h.size - 1 ELSE h.size
                         IN  HSome(HashSetNode_Node(new_size, [h.slice EXCEPT ![idx] = r.n]))

\* to_vec_internal; i is the position of the for loop over a Node's slice
RECURSIVE HashSetNode_to_vec_internal(_, _)
HashSetNode_to_vec_internal(h, i) ==
    CASE h.t = "Empty" -> <<>>
      [] h.t = "One" -> <<h.k>>
      [] h.t = "Node" ->
            IF i = TRIE_SIZE THEN <<>>
            ELSE HashSetNode_to_vec_internal(h.slice[i], 0)
                    \o HashSetNode_to_vec_internal(h, i + 1)

HashSetNode_to_vec(h) == HashSetNode_to_vec_internal(h, 0)

\* H::new: the root of a HashSet is held through an Arc, and two versions
\* share their root exactly when their handles are the same.  A handle is
\* kept as a tag, and the handle that H::new returns to an operation differs
\* from the handle of the version the operation was applied to.
H_new(at) == (at + 1) % 2

HashSet_empty == [n |-> HashSetNode_Empty, count |-> 0, at |-> 0]

\* an insert that wraps the root it was given in a new handle when the key
\* is already found
HashSet_insert_rewrapped(s, k) ==
    LET r == HashSetNode_insert(s.n, 0, k, 1)
    IN  CASE r.o = "Some" -> [n |-> r.n, count |-> s.count + 1, at |-> H_new(s.at)]
          [] r.o = "None" -> [n |-> s.n, count |-> s.count, at |-> H_new(s.at)]
          [] OTHER -> [n |-> OverflowNode, count |-> s.count, at |-> s.at]

HashSet_insert(s, k) ==
    LET r == HashSetNode_insert(s.n, 0, k, 1)
    IN  CASE r.o = "Some" -> [n |-> r.n, count |-> s.count + 1, at |-> H_new(s.at)]
          [] r.o = "None" -> s
          [] OTHER -> [n |-> OverflowNode, count |-> s.count, at |-> s.at]

HashSet_remove_count_kept(s, k) ==
    LET r == HashSetNode_remove(s.n, 0, k)
    IN  IF r.o = "Some" THEN [n |-> r.n, count |-> s.count, at |-> H_new(s.at)]
        ELSE [n |-> s.n, count |-> s.count, at |-> s.at]

HashSet_remove(s, k) ==
    LET r == HashSetNode_remove(s.n, 0, k)
    IN  IF r.o = "Some" THEN [n |-> r.n, count |-> s.count - 1, at |-> H_new(s.at)]
        ELSE [n |-> s.n, count |-> s.count, at |-> s.at]

HashSet_exist(s, k) == HashSetNode_exist(s.n, 0, k)

HashSet_to_vec(s) == HashSetNode_to_vec(s.n)

HashSet_len(s) == s.count

(***************************************************************************)
(* hashmap.rs                                                              *)
(***************************************************************************)
HashMapNode_Empty == [t |-> "Empty"]

HashMapNode_One(kh, k, v) == [t |-> "One", h |-> kh, k |-> k, v |-> v]

HashMapNode_Node(size, slice) == [t |-> "Node", size |-> size, slice |-> slice]

HashMapNode_new_empty_slice == [i \in 0..(TRIE_SIZE - 1) |-> HashMapNode_Empty]

RECURSIVE HashMapNode_insert(_, _, _, _, _)
HashMapNode_insert(h, l, k, v, d) ==
    IF d > StackFrames THEN HOverflow
    ELSE
    LET kh == hash(k)
        idx == slot_index(kh, l)
    IN  CASE h.t = "Empty" -> HSome(HashMapNode_One(kh, k, v))
          [] h.t = "One" ->
                IF kh = h.h /\ k = h.k THEN HNone
                ELSE
                LET slice == [HashMapNode_new_empty_slice EXCEPT
                                 ![idx] = HashMapNode_One(kh, k, v)]
                    idx2 == slot_index(h.h, l)
                IN  IF idx2 # idx
                    THEN HSome(HashMapNode_Node(2,
                                 [slice EXCEPT ![idx2] = HashMapNode_One(h.h, h.k, h.v)]))
                    ELSE LET n == HashMapNode_Node(1, slice)
                             r == HashMapNode_insert(n, l, h.k, h.v, d + 1)
                         IN  IF r.o = "None" THEN HSome(n) ELSE r
          [] h.t = "Node" ->
                LET r == HashMapNode_insert(h.slice[idx], l + TRIE_BITS, k, v, d + 1)
                IN  IF r.o = "Some"
                    THEN HSome(HashMapNode_Node(h.size + 1, [h.slice EXCEPT ![idx] = r.n]))
                    ELSE r

RECURSIVE HashMapNode_exist(_, _, _)
HashMapNode_exist(h, l, k) ==
    LET kh == hash(k)
        idx == slot_index(kh, l)
    IN  CASE h.t = "Empty" -> FALSE
          [] h.t = "One" -> kh = h.h /\ k = h.k
          [] h.t = "Node" -> HashMapNode_exist(h.slice[idx], l + TRIE_BITS, k)

RECURSIVE HashMapNode_find(_, _, _)
HashMapNode_find(h, l, k) ==
    LET kh == hash(k)
        idx == slot_index(kh, l)
    IN  CASE h.t = "Empty" -> None
          [] h.t = "One" -> IF kh = h.h /\ k = h.k THEN Some(h.v) ELSE None
          [] h.t = "Node" -> HashMapNode_find(h.slice[idx], l + TRIE_BITS, k)

RECURSIVE HashMapNode_remove(_, _, _)
HashMapNode_remove(h, l, k) ==
    LET kh == hash(k)
        idx == slot_index(kh, l)
    IN  CASE h.t = "Empty" -> HNone
          [] h.t = "One" -> IF kh = h.h /\ k = h.k THEN HSome(HashMapNode_Empty) ELSE HNone
          [] h.t = "Node" ->
                LET r == HashMapNode_remove(h.slice[idx], l + TRIE_BITS, k)
                IN  IF r.o = "None" THEN HNone
                    ELSE IF r.n.t = "Empty" /\ h.size = 1 THEN HSome(HashMapNode_Empty)
                    ELSE LET new_size == IF r.n.t = "Empty" THEN h.size - 1 ELSE h.size
                         IN  HSome(HashMapNode_Node(new_size, [h.slice EXCEPT ![idx] = r.n]))

RECURSIVE HashMapNode_to_vec_internal(_, _)
HashMapNode_to_vec_internal(h, i) ==
    CASE h.t = "Empty" -> <<>>
      [] h.t = "One" -> << <<h.k, h.v>> >>
      [] h.t = "Node" ->
            IF i = TRIE_SIZE THEN <<>>
            ELSE HashMapNode_to_vec_internal(h.slice[i], 0)
                    \o HashMapNode_to_vec_internal(h, i + 1)

HashMapNode_to_vec(h) == HashMapNode_to_vec_internal(h, 0)

HashMap_empty == [n |-> HashMapNode_Empty, count |-> 0]

HashMap_remove(s, k) ==
    LET r == HashMapNode_remove(s.n, 0, k)
    IN  IF r.o = "Some" THEN [n |-> r.n, count |-> s.count - 1]
        ELSE [n |-> s.n, count |-> s.count]

HashMap_insert_first_wins(s, k, v) ==
    LET r == HashMapNode_insert(s.n, 0, k, v, 1)
    IN  CASE r.o = "Some" -> [n |-> r.n, count |-> s.count + 1]
          [] r.o = "None" -> s
          [] OTHER -> [n |-> OverflowNode, count |-> s.count]

HashMap_insert(s, k, v) ==
    LET r == HashMapNode_insert(s.n, 0, k, v, 1)
    IN  CASE r.o = "Some" -> [n |-> r.n, count |-> s.count + 1]
          [] r.o = "None" ->
                \* the key is already found, overwrite it
                LET r2 == HashMapNode_insert(HashMap_remove(s, k).n, 0, k, v, 1)
                IN  CASE r2.o = "Some" -> [n |-> r2.n, count |-> s.count]
                      [] r2.o = "None" -> [n |-> PanicNode, count |-> s.count]
                      [] OTHER -> [n |-> OverflowNode, count |-> s.count]
          [] OTHER -> [n |-> OverflowNode, count |-> s.count]

HashMap_exist(s, k) == HashMapNode_exist(s.n, 0, k)

HashMap_find(s, k) == HashMapNode_find(s.n, 0, k)

HashMap_to_vec(s) == HashMapNode_to_vec(s.n)

HashMap_len(s) == s.count

(***************************************************************************)
(* The heap of reference-counted cells (std::sync::Arc) that List and      *)
(* Queue versions live in.  A handle is the index of a cell; rc is the     *)
(* strong count of the cell.  Handle 0 is no handle.                       *)
(***************************************************************************)
Cells == 1..NCells

FreeCell == [t |-> "Free"]

\* Arc::new: the cell is placed at the lowest free address
arc_new(c, cell) ==
    LET p == CHOOSE i \in DOMAIN c :
                 /\ c[i].t = "Free"
                 /\ \A j \in DOMAIN c : c[j].t = "Free" => i <= j
    IN  [c |-> [c EXCEPT ![p] = cell], p |-> p]

\* Arc::clone
arc_clone(c, p) == [c EXCEPT ![p].rc = @ + 1]

(***************************************************************************)
(* list.rs                                                                 *)
(***************************************************************************)
ListNode_Nil == [t |-> "Nil", rc |-> 1]

ListNode_Node(s, e, l) == [t |-> "Node", s |-> s, e |-> e, l |-> l, rc |-> 1]

drop_next_of_shared(c, n) ==
    IF c[n].t = "Nil" THEN [c |-> c, next |-> 0]
    ELSE [c |-> [c EXCEPT ![n] = [t |-> "Nil", rc |-> @.rc]], next |-> c[n].l]

\* a drop_next that goes on behind a node it does not own alone
drop_next_past_shared(c, n) ==
    IF c[n].t = "Nil" THEN [c |-> c, next |-> 0]
    ELSE IF c[n].rc # 1 THEN [c |-> c, next |-> c[n].l]
    ELSE [c |-> [c EXCEPT ![n] = [t |-> "Nil", rc |-> @.rc]], next |-> c[n].l]

\* drop_next: the result is the heap and the handle taken out of the node
\* (0 for None); Arc::get_mut gives the node only to a sole owner
drop_next(c, n) ==
    IF c[n].rc # 1 THEN [c |-> c, next |-> 0]
    ELSE IF c[n].t = "Nil" THEN [c |-> c, next |-> 0]
    ELSE [c |-> [c EXCEPT ![n] = [t |-> "Nil", rc |-> @.rc]], next |-> c[n].l]

RECURSIVE arc_drop(_, _)
RECURSIVE List_drop_loop(_, _)

\* impl Drop for List, followed by the drop of the field n
List_drop(c, x) ==
    LET r == drop_next(c, x)
        c1 == IF r.next = 0 THEN r.c ELSE List_drop_loop(r.c, r.next)
    IN  arc_drop(c1, x)

\* the loop of List::drop: n = drop_next(v) drops the handle v it replaces
List_drop_loop(c, v) ==
    LET r == drop_next(c, v)
        c1 == arc_drop(r.c, v)
    IN  IF r.next = 0 THEN c1 ELSE List_drop_loop(c1, r.next)

\* the drop of an Arc handle: the last owner drops the fields of the value
\* (the tail handle of a list Node, the two Lists of a queue Node)
arc_drop(c, p) ==
    IF c[p].rc > 1 THEN [c EXCEPT ![p].rc = @ - 1]
    ELSE LET c1 == [c EXCEPT ![p] = FreeCell]
         IN  CASE c[p].t = "Node" -> arc_drop(c1, c[p].l)
               [] c[p].t = "QNode" -> List_drop(List_drop(c1, c[p].back), c[p].front)
               [] OTHER -> c1

list_empty(c) == arc_new(c, ListNode_Nil)

\* a node that caches the length 1 whatever its tail
list_node_of_one(c, s, e, l) == arc_new(arc_clone(c, l), ListNode_Node(1, e, l))

list_node(c, s, e, l) == arc_new(arc_clone(c, l), ListNode_Node(s, e, l))

\* a push that does not count the element it adds
list_push_uncounted(c, l, e) ==
    list_node(c, IF c[l].t = "Nil" THEN 1 ELSE c[l].s, e, l)

list_push(c, l, e) ==
    IF c[l].t = "Nil" THEN list_node(c, 1, e, l)
    ELSE list_node(c, c[l].s + 1, e, l)

\* a pop that gives the empty list back
list_pop_of_nil(c, l) ==
    IF c[l].t = "Nil" THEN [c |-> arc_clone(c, l), p |-> l]
    ELSE [c |-> arc_clone(c, c[l].l), p |-> c[l].l]

\* p = 0: panic!("pop: list is empty")
list_pop(c, l) ==
    IF c[l].t = "Nil" THEN [c |-> c, p |-> 0]
    ELSE [c |-> arc_clone(c, c[l].l), p |-> c[l].l]

\* panic = TRUE: panic!("top: list is empty")
list_top(c, l) ==
    IF c[l].t = "Nil" THEN [panic |-> TRUE, e |-> 0]
    ELSE [panic |-> FALSE, e |-> c[l].e]

list_len(c, l) == IF c[l].t = "Nil" THEN 0 ELSE c[l].s

RECURSIVE list_to_vec(_, _)
list_to_vec(c, l) ==
    IF c[l].t = "Nil" THEN <<>>
    ELSE <<c[l].e>> \o list_to_vec(c, c[l].l)

\* a loop of rev that stops after the first element
list_rev_loop_once(c, n, s) ==
    IF c[s].t = "Nil" THEN [c |-> c, p |-> n]
    ELSE LET r == list_push(c, n, c[s].e)
         IN  [c |-> arc_drop(r.c, n), p |-> r.p]

\* the loop of rev: n = push(&n, e.clone()) drops the handle n it replaces
RECURSIVE list_rev_loop(_, _, _)
list_rev_loop(c, n, s) ==
    IF c[s].t = "Nil" THEN [c |-> c, p |-> n]
    ELSE LET r == list_push(c, n, c[s].e)
         IN  list_rev_loop(arc_drop(r.c, n), r.p, c[s].l)

list_rev_kept(c, l) == [c |-> arc_clone(c, l), p |-> l]

list_rev(c, l) ==
    LET r == list_empty(c)
    IN  list_rev_loop(r.c, r.p, l)

List_empty(c) == list_empty(c)

List_clone(c, x) == [c |-> arc_clone(c, x), p |-> x]

List_push(c, x, e) == list_push(c, x, e)

List_pop(c, x) == list_pop(c, x)

List_top(c, x) == list_top(c, x)

List_len(c, x) == list_len(c, x)

List_is_empty(c, x) == list_len(c, x) = 0

List_to_vec(c, x) == list_to_vec(c, x)

List_rev(c, x) == list_rev(c, x)

(***************************************************************************)
(* queue.rs                                                                *)
(***************************************************************************)
QueueNode_Empty == [t |-> "QEmpty", rc |-> 1]

QueueNode_Node(back, front) == [t |-> "QNode", back |-> back, front |-> front, rc |-> 1]

queue_empty(c) == arc_new(c, QueueNode_Empty)

\* a node that stores the two lists whatever their lengths
queue_node_unchecked(c, back, front) == arc_new(c, QueueNode_Node(back, front))

\* node takes the two lists: it stores them, or drops them when it returns
\* empty()
queue_node(c, back, front) ==
    IF List_len(c, back) = 0 /\ List_len(c, front) = 0
    THEN LET r == queue_empty(c)
         IN  [c |-> List_drop(List_drop(r.c, front), back), p |-> r.p]
    ELSE arc_new(c, QueueNode_Node(back, front))

queue_enqueue(c, q, e) ==
    IF c[q].t = "QEmpty"
    THEN LET t == List_empty(c)
             b == List_push(t.c, t.p, e)
             f == List_empty(b.c)
             n == queue_node(f.c, b.p, f.p)
         IN  [c |-> List_drop(n.c, t.p), p |-> n.p]
    ELSE LET b == List_push(c, c[q].back, e)
             f == List_clone(b.c, c[q].front)
         IN  queue_node(f.c, b.p, f.p)

QueuePanic == [c |-> <<>>, p |-> 0, e |-> 0, rev |-> 0]

\* a dequeue that keeps the rest of the reversed list as the back list
queue_dequeue_to_back(c, q) ==
    IF c[q].t = "QEmpty" THEN QueuePanic
    ELSE LET b == c[q].back
             f == c[q].front
         IN  CASE List_len(c, b) = 0 /\ List_len(c, f) = 0 -> QueuePanic
               [] List_len(c, b) # 0 /\ List_len(c, f) = 0 ->
                     LET l == List_rev(c, b)
                         p == List_pop(l.c, l.p)
                         e == List_top(p.c, l.p)
                     IN  IF p.p = 0 \/ e.panic THEN QueuePanic
                         ELSE LET t == List_empty(p.c)
                                  n == queue_node(t.c, p.p, t.p)
                              IN  [c |-> List_drop(n.c, l.p), p |-> n.p, e |-> e.e,
                                   rev |-> List_len(l.c, l.p)]
               [] OTHER ->
                     LET p == List_pop(c, f)
                         e == List_top(c, f)
                     IN  IF p.p = 0 \/ e.panic THEN QueuePanic
                         ELSE LET bc == List_clone(p.c, b)
                                  n == queue_node(bc.c, bc.p, p.p)
                              IN  [c |-> n.c, p |-> n.p, e |-> e.e, rev |-> 0]

\* the result is the heap, the handle of the new queue node and the element;
\* p = 0 is a panic; rev is the number of elements that rev() copied for this
\* dequeue
queue_dequeue(c, q) ==
    IF c[q].t = "QEmpty" THEN QueuePanic
    ELSE LET b == c[q].back
             f == c[q].front
         IN  CASE List_len(c, b) = 0 /\ List_len(c, f) = 0 -> QueuePanic
               [] List_len(c, b) # 0 /\ List_len(c, f) = 0 ->
                     LET l == List_rev(c, b)
                         p == List_pop(l.c, l.p)
                         e == List_top(p.c, l.p)
                     IN  IF p.p = 0 \/ e.panic THEN QueuePanic
                         ELSE LET t == List_empty(p.c)
                                  n == queue_node(t.c, t.p, p.p)
                              IN  [c |-> List_drop(n.c, l.p), p |-> n.p, e |-> e.e,
                                   rev |-> List_len(l.c, l.p)]
               [] OTHER ->
                     LET p == List_pop(c, f)
                         e == List_top(c, f)
                     IN  IF p.p = 0 \/ e.panic THEN QueuePanic
                         ELSE LET bc == List_clone(p.c, b)
                                  n == queue_node(bc.c, bc.p, p.p)
                              IN  [c |-> n.c, p |-> n.p, e |-> e.e, rev |-> 0]

queue_len(c, q) ==
    IF c[q].t = "QEmpty" THEN 0
    ELSE List_len(c, c[q].back) + List_len(c, c[q].front)

\* the loop of to_vec: n = nn drops the handle n it replaces; the result is
\* the heap and the vector, panic = TRUE when a dequeue panicked
RECURSIVE queue_to_vec_loop(_, _, _)
queue_to_vec_loop(c, n, v) ==
    IF c[n].t = "QEmpty" THEN [c |-> arc_drop(c, n), v |-> v, panic |-> FALSE]
    ELSE LET d == queue_dequeue(c, n)
         IN  IF d.p = 0 THEN [c |-> c, v |-> v, panic |-> TRUE]
             ELSE queue_to_vec_loop(arc_drop(d.c, n), d.p, Append(v, d.e))

queue_to_vec(c, l) == queue_to_vec_loop(arc_clone(c, l), l, <<>>)

Queue_enqueue(c, x, e) == queue_enqueue(c, x, e)

Queue_dequeue(c, x) == queue_dequeue(c, x)

Queue_len(c, x) == queue_len(c, x)

Queue_to_vec(c, x) == queue_to_vec(c, x)

(***************************************************************************)
(* The iterators.  An iterator is the record of its fields; next returns   *)
(* the iterator after the call and the item, Some(e) or None (and, for     *)
(* List and Queue, the heap after the call).                               *)
(***************************************************************************)
Set_iter(s) == [stack |-> IF s.n.t = "Empty" THEN <<>> ELSE <<s.n>>]

RECURSIVE SetIter_next(_)

\* a next that yields the key of a node before the keys of its left subtree
SetIter_next_preorder(it) ==
    IF it.stack = <<>> THEN [it |-> it, item |-> None]
    ELSE LET node == it.stack[Len(it.stack)]
             rest == SubSeq(it.stack, 1, Len(it.stack) - 1)
         IN  CASE node.t = "Empty" -> SetIter_next([stack |-> rest])
               [] node.t = "One" -> [it |-> [stack |-> rest], item |-> Some(node.k)]
               [] node.t = "Node" ->
                     SetIter_next([stack |->
                         rest \o (IF node.r.t # "Empty" THEN <<node.r>> ELSE <<>>)
                              \o (IF node.l.t # "Empty" THEN <<node.l>> ELSE <<>>)
                              \o <<set_one(node.k)>>])

\* the top of the stack is its last element
SetIter_next(it) ==
    IF it.stack = <<>> THEN [it |-> it, item |-> None]
    ELSE LET node == it.stack[Len(it.stack)]
             rest == SubSeq(it.stack, 1, Len(it.stack) - 1)
         IN  CASE node.t = "Empty" -> SetIter_next([stack |-> rest])
               [] node.t = "One" -> [it |-> [stack |-> rest], item |-> Some(node.k)]
               [] node.t = "Node" ->
                     SetIter_next([stack |->
                         rest \o (IF node.r.t # "Empty" THEN <<node.r>> ELSE <<>>)
                              \o <<set_one(node.k)>>
                              \o (IF node.l.t # "Empty" THEN <<node.l>> ELSE <<>>)])

Map_iter(s) == [stack |-> IF s.n.t = "Empty" THEN <<>> ELSE <<s.n>>]

RECURSIVE MapIter_next(_)
MapIter_next(it) ==
    IF it.stack = <<>> THEN [it |-> it, item |-> None]
    ELSE LET node == it.stack[Len(it.stack)]
             rest == SubSeq(it.stack, 1, Len(it.stack) - 1)
         IN  CASE node.t = "Empty" -> MapIter_next([stack |-> rest])
               [] node.t = "One" ->
                     [it |-> [stack |-> rest], item |-> Some(<<node.k, node.v>>)]
               [] node.t = "Node" ->
                     MapIter_next([stack |->
                         rest \o (IF node.r.t # "Empty" THEN <<node.r>> ELSE <<>>)
                              \o <<MapNode_one(node.k, node.v)>>
                              \o (IF node.l.t # "Empty" THEN <<node.l>> ELSE <<>>)])

Pointer(idx, node) == [idx |-> idx, node |-> node]

HashSet_iter(s) == [stack |-> <<>>, current |-> Pointer(0, s.n)]

\* pop, and next with its while loop (scan) over the entries of a Node
RECURSIVE HSIter_next(_)
HSIter_next(it) ==
    LET n == it.current.node
        pop(x) ==
            IF x.stack = <<>>
            THEN [stack |-> <<>>, current |-> Pointer(0, HashSetNode_Empty)]
            ELSE LET top == x.stack[Len(x.stack)]
                 IN  [stack |-> SubSeq(x.stack, 1, Len(x.stack) - 1),
                      current |-> Pointer(top.idx + 1, top.node)]
        RECURSIVE scan(_)
        scan(idx) ==
            IF idx < TRIE_SIZE
            THEN CASE n.slice[idx].t = "Empty" -> scan(idx + 1)
                   [] n.slice[idx].t = "One" ->
                         [it |-> [it EXCEPT !.current.idx = idx + 1],
                          item |-> Some(n.slice[idx].k)]
                   [] n.slice[idx].t = "Node" ->
                         HSIter_next([stack |-> Append(it.stack, Pointer(idx, n)),
                                      current |-> Pointer(0, n.slice[idx])])
            ELSE HSIter_next(pop([it EXCEPT !.current.idx = idx]))
    IN  CASE n.t = "Empty" -> [it |-> it, item |-> None]
          [] n.t = "One" ->
                IF it.current.idx = 0
                THEN [it |-> [it EXCEPT !.current.idx = 1], item |-> Some(n.k)]
                ELSE [it |-> it, item |-> None]
          [] n.t = "Node" -> scan(it.current.idx)

HashMap_iter(s) == [stack |-> <<>>, current |-> Pointer(0, s.n)]

RECURSIVE HMIter_next(_)
HMIter_next(it) ==
    LET n == it.current.node
        pop(x) ==
            IF x.stack = <<>>
            THEN [stack |-> <<>>, current |-> Pointer(0, HashMapNode_Empty)]
            ELSE LET top == x.stack[Len(x.stack)]
                 IN  [stack |-> SubSeq(x.stack, 1, Len(x.stack) - 1),
                      current |-> Pointer(top.idx + 1, top.node)]
        RECURSIVE scan(_)
        scan(idx) ==
            IF idx < TRIE_SIZE
            THEN CASE n.slice[idx].t = "Empty" -> scan(idx + 1)
                   [] n.slice[idx].t = "One" ->
                         [it |-> [it EXCEPT !.current.idx = idx + 1],
                          item |-> Some(<<n.slice[idx].k, n.slice[idx].v>>)]
                   [] n.slice[idx].t = "Node" ->
                         HMIter_next([stack |-> Append(it.stack, Pointer(idx, n)),
                                      current |-> Pointer(0, n.slice[idx])])
            ELSE HMIter_next(pop([it EXCEPT !.current.idx = idx]))
    IN  CASE n.t = "Empty" -> [it |-> it, item |-> None]
          [] n.t = "One" ->
                IF it.current.idx = 0
                THEN [it |-> [it EXCEPT !.current.idx = 1], item |-> Some(<<n.k, n.v>>)]
                ELSE [it |-> it, item |-> None]
          [] n.t = "Node" -> scan(it.current.idx)

\* iter clones the handle of the list
List_iter(c, x) == [c |-> arc_clone(c, x), it |-> [node |-> x]]

\* nc is a clone of self.node, dropped when next returns; the assignment to
\* self.node drops the handle it replaces
ListIter_next(c, it) ==
    LET nc == it.node
        c1 == arc_clone(c, nc)
    IN  IF c1[nc].t = "Nil"
        THEN [c |-> arc_drop(c1, nc), it |-> it, item |-> None]
        ELSE LET next == c1[nc].l
                 c2 == arc_drop(arc_clone(c1, next), it.node)
             IN  [c |-> arc_drop(c2, nc), it |-> [node |-> next], item |-> Some(c1[nc].e)]

\* iter clones the handle of the queue
Queue_iter(c, x) == [c |-> arc_clone(c, x), it |-> [queue |-> x]]

\* panic = TRUE when the dequeue panicked
QueueIter_next(c, it) ==
    IF c[it.queue].t = "QEmpty"
    THEN [c |-> c, it |-> it, item |-> None, panic |-> FALSE]
    ELSE LET d == queue_dequeue(c, it.queue)
         IN  IF d.p = 0 THEN [c |-> c, it |-> it, item |-> None, panic |-> TRUE]
             ELSE [c |-> arc_drop(d.c, it.queue), it |-> [queue |-> d.p],
                   item |-> Some(d.e), panic |-> FALSE]

(***************************************************************************)
(* The program: slots of versions and the operations applied to them.      *)
(***************************************************************************)
EmptyOf(c) ==
    CASE c = "Set" -> Set_empty
      [] c = "Map" -> Map_empty
      [] c = "HashSet" -> HashSet_empty
      [] c = "HashMap" -> HashMap_empty

\* the abstract content of an empty container: a set of keys (Set, HashSet),
\* a function from keys to values (Map, HashMap), a sequence of elements, top
\* first (List) or oldest first (Queue)
AbsEmptyOf(c) ==
    CASE c = "Set" -> {}
      [] c = "Map" -> <<>>
      [] c = "HashSet" -> {}
      [] c = "HashMap" -> <<>>
      [] c = "List" -> <<>>
      [] c = "Queue" -> <<>>

AbsPut(m, k, v) == [x \in (DOMAIN m) \cup {k} |-> IF x = k THEN v ELSE m[x]]

AbsDel(m, k) == [x \in (DOMAIN m) \ {k} |-> m[x]]

HeapKinds == {"List", "Queue"}

\* every slot starts with its own empty(); a List or Queue version is the
\* handle of its node
InitOf(kinds) ==
    /\ kind \in kinds
    /\ vers = [s \in Slots |-> IF kind \in HeapKinds THEN s ELSE EmptyOf(kind)]
    /\ heap = [p \in Cells |->
                  IF kind = "List" /\ p \in Slots THEN ListNode_Nil
                  ELSE IF kind = "Queue" /\ p \in Slots THEN QueueNode_Empty
                  ELSE FreeCell]
    /\ abs = [s \in Slots |-> AbsEmptyOf(kind)]
    /\ last = NoOp
    /\ status = "ok"
    /\ fed = 0

\* an operation returned `new` (or panicked, or ran out of stack, on the way):
\* the version is stored in slot j; a panic or a stack overflow ends the process
Commit(j, new, newabs, op) ==
    IF new.n.t \in {"Panic", "Overflow"}
    THEN /\ status' = (IF new.n.t = "Panic" THEN "panic" ELSE "overflow")
         /\ last' = op
         /\ UNCHANGED <<kind, vers, abs, fed, heap>>
    ELSE /\ vers' = [vers EXCEPT ![j] = new]
         /\ abs' = [abs EXCEPT ![j] = newabs]
         /\ last' = op
         /\ UNCHANGED <<kind, status, fed, heap>>

\* the drop of a version that a slot held: List has a Drop, Queue drops its
\* handle
Version_drop(c, x) == IF kind = "List" THEN List_drop(c, x) ELSE arc_drop(c, x)

\* the children of a tree node, by their data and then by their addresses
RECURSIVE ByData(_, _)
ByData(c, S) ==
    IF S = {} THEN <<>>
    ELSE LET m == CHOOSE x \in S : \A y \in S :
                      \/ c[x].data < c[y].data
                      \/ c[x].data = c[y].data /\ x <= y
         IN  <<m>> \o ByData(c, S \ {m})

\* Addresses carry no meaning: after an operation the cells are renamed to
\* the order in which they are met from the slots (cells in use that no slot
\* reaches, if there were any, follow in the order of their addresses), so
\* that heaps that differ only in their addresses are one state.
CellHandles(c, p) ==
    CASE c[p].t = "Node" -> <<c[p].l>>
      [] c[p].t = "QNode" -> <<c[p].back, c[p].front>>
      [] c[p].t = "TNode" -> ByData(c, c[p].children)
      [] OTHER -> <<>>

RECURSIVE Met(_, _, _)
Met(c, todo, done) ==
    IF todo = <<>> THEN done
    ELSE IF \E i \in DOMAIN done : done[i] = Head(todo)
         THEN Met(c, Tail(todo), done)
         ELSE Met(c, CellHandles(c, Head(todo)) \o Tail(todo), Append(done, Head(todo)))

RECURSIVE Unmet(_, _, _)
Unmet(c, done, p) ==
    IF p > NCells THEN done
    ELSE IF c[p].t = "Free" \/ \E i \in DOMAIN done : done[i] = p
         THEN Unmet(c, done, p + 1)
         ELSE Unmet(c, Append(done, p), p + 1)

AddressOrder(c, held) == Unmet(c, Met(c, held, <<>>), 1)

NewAddress(c, held, p) ==
    LET order == AddressOrder(c, held)
    IN  CHOOSE i \in DOMAIN order : order[i] = p

Renamed(c, held) ==
    LET order == AddressOrder(c, held)
        at(p) == CHOOSE i \in DOMAIN order : order[i] = p
        cell(x) == CASE x.t = "Node" -> [x EXCEPT !.l = at(x.l)]
                     [] x.t = "QNode" -> [x EXCEPT !.back = at(x.back), !.front = at(x.front)]
                     [] OTHER -> x
    IN  [a \in Cells |-> IF a <= Len(order) THEN cell(c[order[a]]) ELSE FreeCell]

\* a List or Queue operation returned the handle r.p in the heap r.c (or
\* panicked, r.p = 0): the handle is stored in slot j and the version that
\* slot j held is dropped
CommitHeap(j, r, newabs, op) ==
    IF r.p = 0
    THEN /\ status' = "panic"
         /\ last' = op
         /\ UNCHANGED <<kind, vers, abs, fed, heap>>
    ELSE LET c == Version_drop(r.c, vers[j])
             held == [vers EXCEPT ![j] = r.p]
         IN  /\ heap' = Renamed(c, held)
             /\ vers' = [s \in Slots |-> NewAddress(c, held, held[s])]
         /\ abs' = [abs EXCEPT ![j] = newabs]
         /\ last' = op
         /\ UNCHANGED <<kind, status, fed>>

RECURSIVE Reverse(_)
Reverse(q) == IF q = <<>> THEN <<>> ELSE Append(Reverse(Tail(q)), Head(q))

Rest(q) == IF q = <<>> THEN <<>> ELSE Tail(q)

ListPush(i, j, e) ==
    /\ kind = "List" /\ status = "ok"
    /\ List_len(heap, vers[i]) < MaxLen
    /\ CommitHeap(j, List_push(heap, vers[i], e), <<e>> \o abs[i],
                  Op("push", i, j, e, 0, FALSE, 0))

ListPop(i, j) ==
    /\ kind = "List" /\ status = "ok"
    /\ CommitHeap(j, List_pop(heap, vers[i]), Rest(abs[i]),
                  Op("pop", i, j, 0, 0, FALSE, 0))

ListRev(i, j) ==
    /\ kind = "List" /\ status = "ok"
    /\ CommitHeap(j, List_rev(heap, vers[i]), Reverse(abs[i]),
                  Op("rev", i, j, 0, 0, FALSE, 0))

QueueEnqueue(i, j, e) ==
    /\ kind = "Queue" /\ status = "ok"
    /\ Queue_len(heap, vers[i]) < MaxLen
    /\ CommitHeap(j, Queue_enqueue(heap, vers[i], e), Append(abs[i], e),
                  Op("enqueue", i, j, e, 0, FALSE, 0))

\* let (e, q) = vers[i].dequeue(); the queue q goes to slot j
QueueDequeue(i, j) ==
    /\ kind = "Queue" /\ status = "ok"
    /\ LET r == Queue_dequeue(heap, vers[i])
       IN  CommitHeap(j, r, Rest(abs[i]), Op("dequeue", i, j, 0, 0, FALSE, r.e))

SetInsert(i, j, k) ==
    /\ kind = "Set" /\ status = "ok"
    /\ Set_len(vers[i]) < MaxSize
    /\ Commit(j, Set_insert(vers[i], k), abs[i] \cup {k},
              Op("insert", i, j, k, 0, k \in abs[i], 0))

SetRemove(i, j, k) ==
    /\ kind = "Set" /\ status = "ok"
    /\ Commit(j, Set_remove(vers[i], k), abs[i] \ {k},
              Op("remove", i, j, k, 0, k \in abs[i], 0))

MapInsert(i, j, k, v) ==
    /\ kind = "Map" /\ status = "ok"
    /\ Map_len(vers[i]) < MaxSize
    /\ Commit(j, Map_insert(vers[i], k, v), AbsPut(abs[i], k, v),
              Op("insert", i, j, k, v, k \in DOMAIN abs[i], 0))

MapRemove(i, j, k) ==
    /\ kind = "Map" /\ status = "ok"
    /\ Commit(j, Map_remove(vers[i], k), AbsDel(abs[i], k),
              Op("remove", i, j, k, 0, k \in DOMAIN abs[i], 0))

\* the largest size field of a trie's branches
RECURSIVE BranchMax(_, _)
BranchMax(h, i) ==
    IF h.t # "Node" THEN 0
    ELSE IF i = TRIE_SIZE THEN h.size
    ELSE Max(BranchMax(h.slice[i], 0), BranchMax(h, i + 1))

HashSetInsert(i, j, k) ==
    /\ kind = "HashSet" /\ status = "ok"
    /\ BranchMax(vers[i].n, 0) < MaxBranch
    /\ Commit(j, HashSet_insert(vers[i], k), abs[i] \cup {k},
              Op("insert", i, j, k, 0, k \in abs[i], 0))

HashSetRemove(i, j, k) ==
    /\ kind = "HashSet" /\ status = "ok"
    /\ Commit(j, HashSet_remove(vers[i], k), abs[i] \ {k},
              Op("remove", i, j, k, 0, k \in abs[i], 0))

HashMapInsert(i, j, k, v) ==
    /\ kind = "HashMap" /\ status = "ok"
    /\ BranchMax(vers[i].n, 0) < MaxBranch
    /\ Commit(j, HashMap_insert(vers[i], k, v), AbsPut(abs[i], k, v),
              Op("insert", i, j, k, v, k \in DOMAIN abs[i], 0))

HashMapRemove(i, j, k) ==
    /\ kind = "HashMap" /\ status = "ok"
    /\ Commit(j, HashMap_remove(vers[i], k), AbsDel(abs[i], k),
              Op("remove", i, j, k, 0, k \in DOMAIN abs[i], 0))

(***************************************************************************)
(* tree.rs: the rose tree and its path.  A Node is a handle of a cell that *)
(* holds NodePriv { data, children }.  Node hashes and compares by the     *)
(* address of its cell, so that the HashSet of children never meets two     *)
(* elements of one hash: it is modelled by the set of its elements, len()  *)
(* by the number of elements, and iter() visits them in the order of their *)
(* addresses (the order of their trie slots).  A cell is released when no  *)
(* path that the program holds reaches it.  Option<Node> is a handle or 0. *)
(***************************************************************************)
Data == 1..NData

\* cells enough for the trees of all slots and for the nodes that one
\* operation makes (set_data rebuilds the spine twice)
TreeCells == 1..(NSlots * MaxTree + 2 * MaxTree)

\* the functions and predicates that the program passes to the transforms;
\* 0 stands for None
DataFns == [Data -> {0} \cup Data]

\* the functions that replace the data of at most one kind of node
OneFns == {f \in DataFns : Cardinality({d \in Data : f[d] # 0}) <= 1}

DataPreds == [Data -> BOOLEAN]

\* f(acc, data) of apply_acc_recursive: a closure that changes the data of
\* the nodes met with at least f.depth entries in acc
AccFns == [g : DataFns, depth : {1, 2}]

AccFn_call(f, acc, d) == IF Len(acc) >= f.depth THEN f.g[d] ELSE 0

RECURSIVE Ascending(_)
Ascending(S) ==
    IF S = {} THEN <<>>
    ELSE LET m == CHOOSE x \in S : \A y \in S : x <= y
         IN  <<m>> \o Ascending(S \ {m})

NodePriv(data, children) == [t |-> "TNode", data |-> data, children |-> children]

Node_new(c, data, children) == arc_new(c, NodePriv(data, children))

\* an apply that gives the new node no children
Node_apply_bare(c, n, f) ==
    LET new_data == f[c[n].data]
    IN  IF new_data = 0 THEN [c |-> c, p |-> 0]
        ELSE Node_new(c, new_data, {})

Node_apply(c, n, f) ==
    LET new_data == f[c[n].data]
    IN  IF new_data = 0 THEN [c |-> c, p |-> 0]
        ELSE Node_new(c, new_data, c[n].children)

RECURSIVE Node_apply_recursive(_, _, _)

\* an apply_recursive that builds a node whether or not anything changed
Node_apply_recursive_eager(c, n, f) ==
    LET RECURSIVE apply_eager_loop(_, _, _, _)
        apply_eager_loop(h, kids, children, calls) ==
            IF kids = <<>> THEN [c |-> h, children |-> children, calls |-> calls]
            ELSE LET r == Node_apply_recursive(h, Head(kids), f)
                 IN  apply_eager_loop(r.c, Tail(kids), children \cup {r.p},
                                      calls \o r.calls)
        l == apply_eager_loop(c, Ascending(c[n].children), {}, <<>>)
        new_data == f[c[n].data]
        data == IF new_data # 0 THEN new_data ELSE c[n].data
        node == Node_new(l.c, data, l.children)
    IN  [c |-> node.c, p |-> node.p, calls |-> Append(l.calls, n)]

\* an apply_recursive that leaves the children of a changed child alone
Node_apply_recursive_once(c, n, f) ==
    LET new_data == f[c[n].data]
        node == Node_new(c, new_data, c[n].children)
    IN  IF new_data # 0 THEN [c |-> node.c, p |-> node.p, calls |-> <<n>>]
        ELSE [c |-> c, p |-> 0, calls |-> <<n>>]

\* the result is the heap, the handle of the new node (0 for None) and the
\* calls of f in their order, each as the node whose data f was given
Node_apply_recursive(c, n, f) ==
    LET RECURSIVE apply_recursive_loop(_, _, _, _, _)
        apply_recursive_loop(h, kids, changed, children, calls) ==
            IF kids = <<>>
            THEN [c |-> h, changed |-> changed, children |-> children, calls |-> calls]
            ELSE LET r == Node_apply_recursive(h, Head(kids), f)
                     child == IF r.p # 0 THEN r.p ELSE Head(kids)
                 IN  apply_recursive_loop(r.c, Tail(kids), changed \/ r.p # 0,
                                          children \cup {child}, calls \o r.calls)
        l == apply_recursive_loop(c, Ascending(c[n].children), FALSE, {}, <<>>)
        children == IF l.changed THEN l.children ELSE c[n].children
        new_data == f[c[n].data]
        changed == l.changed \/ new_data # 0
        data == IF new_data # 0 THEN new_data ELSE c[n].data
        node == Node_new(l.c, data, children)
    IN  IF changed THEN [c |-> node.c, p |-> node.p, calls |-> Append(l.calls, n)]
        ELSE [c |-> l.c, p |-> 0, calls |-> Append(l.calls, n)]

\* impl TreeAcc for Vec: push appends a clone of the data, pop takes the last
\* entry off (and does nothing on an empty Vec)
TreeAcc_push(acc, data) == Append(acc, data)

\* a pop that leaves the accumulator as it is
TreeAcc_pop_kept(acc) == acc

TreeAcc_pop(acc) == IF acc = <<>> THEN acc ELSE SubSeq(acc, 1, Len(acc) - 1)

\* the result is the heap, the handle of the new node (0 for None), the
\* accumulator after the call, and the calls of acc.push, f and acc.pop in
\* their order: each with the node it was made for, and a call of f with
\* the accumulator it was given
RECURSIVE Node_apply_acc_recursive(_, _, _, _)
Node_apply_acc_recursive(c, n, acc, f) ==
    LET pushed == TreeAcc_push(acc, c[n].data)
        new_data == AccFn_call(f, pushed, c[n].data)
        entry == <<[e |-> "push", n |-> n, acc |-> pushed],
                   [e |-> "f", n |-> n, acc |-> pushed]>>
        RECURSIVE apply_acc_loop(_, _, _, _, _, _)
        apply_acc_loop(h, kids, changed, children, a, trace) ==
            IF kids = <<>>
            THEN [c |-> h, changed |-> changed, children |-> children,
                  acc |-> a, trace |-> trace]
            ELSE LET r == Node_apply_acc_recursive(h, Head(kids), a, f)
                     child == IF r.p # 0 THEN r.p ELSE Head(kids)
                 IN  apply_acc_loop(r.c, Tail(kids), changed \/ r.p # 0,
                                    children \cup {child}, r.acc, trace \o r.trace)
        l == apply_acc_loop(c, Ascending(c[n].children), FALSE, {}, pushed, entry)
        children == IF l.changed THEN l.children ELSE c[n].children
        popped == TreeAcc_pop(l.acc)
        trace == Append(l.trace, [e |-> "pop", n |-> n, acc |-> popped])
        changed == l.changed \/ new_data # 0
        data == IF new_data # 0 THEN new_data ELSE c[n].data
        node == Node_new(l.c, data, children)
    IN  IF changed THEN [c |-> node.c, p |-> node.p, acc |-> popped, trace |-> trace]
        ELSE [c |-> l.c, p |-> 0, acc |-> popped, trace |-> trace]

\* a filter that tests the node and keeps its children as they are
Node_filter_recursive_shallow(c, n, f) ==
    IF f[c[n].data] THEN Node_new(c, c[n].data, c[n].children)
    ELSE [c |-> c, p |-> 0]

RECURSIVE Node_filter_recursive(_, _, _)
Node_filter_recursive(c, n, f) ==
    LET RECURSIVE filter_loop(_, _, _)
        filter_loop(h, kids, children) ==
            IF kids = <<>> THEN [c |-> h, children |-> children]
            ELSE LET r == Node_filter_recursive(h, Head(kids), f)
                 IN  filter_loop(r.c, Tail(kids),
                                 IF r.p # 0 THEN children \cup {r.p} ELSE children)
        l == filter_loop(c, Ascending(c[n].children), {})
    IN  IF f[c[n].data] THEN Node_new(l.c, c[n].data, l.children)
        ELSE [c |-> c, p |-> 0]

RECURSIVE Node_map_data(_, _, _)
Node_map_data(c, n, f) ==
    LET RECURSIVE map_data_loop(_, _, _, _)
        map_data_loop(h, kids, children_changed, children) ==
            IF kids = <<>>
            THEN [c |-> h, children_changed |-> children_changed, children |-> children]
            ELSE LET r == Node_map_data(h, Head(kids), f)
                 IN  IF r.p # 0
                     THEN map_data_loop(r.c, Tail(kids), TRUE, children \cup {r.p})
                     ELSE map_data_loop(r.c, Tail(kids), children_changed,
                                        children \cup {Head(kids)})
        l == map_data_loop(c, Ascending(c[n].children), FALSE, {})
        d == f[c[n].data]
    IN  IF d # 0
        THEN IF l.children_changed THEN Node_new(l.c, d, l.children)
             ELSE Node_new(l.c, d, c[n].children)
        ELSE IF l.children_changed THEN Node_new(l.c, c[n].data, l.children)
             ELSE [c |-> l.c, p |-> 0]

\* what a function of PathPriv or Path gives: the heap and the node_vec of
\* the path it returns; none = TRUE for None; panic names the assertion,
\* unwrap or index that failed ("" when none did)
PathSome(c, node_vec) == [c |-> c, node_vec |-> node_vec, none |-> FALSE, panic |-> ""]

PathNone(c) == [c |-> c, node_vec |-> <<>>, none |-> TRUE, panic |-> ""]

PathPanic(c, why) == [c |-> c, node_vec |-> <<>>, none |-> FALSE, panic |-> why]

PathPriv_new(c, data) ==
    LET r == Node_new(c, data, {})
    IN  PathSome(r.c, <<r.p>>)

\* an add_node that leaves the old child next to the rebuilt one
PathPriv_add_node_kept(c, node_vec, data) ==
    LET len == Len(node_vec)
        new_child == Node_new(c, data, {})
        RECURSIVE add_kept_loop(_, _, _)
        add_kept_loop(h, new_path, i) ==
            IF i = len THEN PathSome(h, Reverse(new_path))
            ELSE LET parent == node_vec[len - i]
                     children == h[parent].children \cup {new_path[i + 1]}
                     new_parent == Node_new(h, h[parent].data, children)
                 IN  add_kept_loop(new_parent.c, Append(new_path, new_parent.p), i + 1)
    IN  IF ~(len >= 1) THEN PathPanic(c, "assert_len")
        ELSE add_kept_loop(new_child.c, <<new_child.p>>, 0)

PathPriv_add_node(c, node_vec, data) ==
    LET len == Len(node_vec)
        new_child == Node_new(c, data, {})
        RECURSIVE add_node_loop(_, _, _)
        add_node_loop(h, new_path, i) ==
            IF i = len THEN PathSome(h, Reverse(new_path))
            ELSE LET parent == node_vec[len - i]
                     inserted == h[parent].children \cup {new_path[i + 1]}
                     children == IF i # 0 THEN inserted \ {node_vec[len - i + 1]}
                                 ELSE inserted
                     new_parent == Node_new(h, h[parent].data, children)
                 IN  add_node_loop(new_parent.c, Append(new_path, new_parent.p), i + 1)
    IN  IF ~(len >= 1) THEN PathPanic(c, "assert_len")
        ELSE IF \E i \in 2..len : node_vec[i] \notin c[node_vec[i - 1]].children
        THEN PathPanic(c, "assert_adjacent")
        ELSE add_node_loop(new_child.c, <<new_child.p>>, 0)

\* a remove_node that leaves the old child in the rebuilt ancestors
PathPriv_remove_node_stale(c, node_vec) ==
    LET len == Len(node_vec)
        RECURSIVE remove_stale_loop(_, _, _)
        remove_stale_loop(h, new_path, i) ==
            IF i = len - 1 THEN PathSome(h, Reverse(new_path))
            ELSE LET parent == node_vec[len - i - 1]
                     children == IF i # 0 THEN h[parent].children
                                 ELSE h[parent].children \ {node_vec[len - i]}
                     new_parent == Node_new(h, h[parent].data, children)
                 IN  remove_stale_loop(new_parent.c, Append(new_path, new_parent.p), i + 1)
    IN  IF ~(len > 1) THEN PathPanic(c, "assert_len")
        ELSE remove_stale_loop(c, <<>>, 0)

\* a remove_node without its assertion
PathPriv_remove_node_unasserted(c, node_vec) ==
    LET len == Len(node_vec)
        RECURSIVE remove_unasserted_loop(_, _, _)
        remove_unasserted_loop(h, new_path, i) ==
            IF i >= len - 1 THEN PathSome(h, Reverse(new_path))
            ELSE LET parent == node_vec[len - i - 1]
                     removed == h[parent].children \ {node_vec[len - i]}
                     children == IF i # 0 THEN removed \cup {new_path[i]}
                                 ELSE removed
                     new_parent == Node_new(h, h[parent].data, children)
                 IN  remove_unasserted_loop(new_parent.c,
                                            Append(new_path, new_parent.p), i + 1)
    IN  remove_unasserted_loop(c, <<>>, 0)

PathPriv_remove_node(c, node_vec) ==
    LET len == Len(node_vec)
        RECURSIVE remove_node_loop(_, _, _)
        remove_node_loop(h, new_path, i) ==
            IF i = len - 1 THEN PathSome(h, Reverse(new_path))
            ELSE LET parent == node_vec[len - i - 1]
                     removed == h[parent].children \ {node_vec[len - i]}
                     children == IF i # 0 THEN removed \cup {new_path[i]}
                                 ELSE removed
                     new_parent == Node_new(h, h[parent].data, children)
                 IN  remove_node_loop(new_parent.c, Append(new_path, new_parent.p), i + 1)
    IN  IF ~(len > 1) THEN PathPanic(c, "assert_len")
        ELSE remove_node_loop(c, <<>>, 0)

PathPriv_set_data(c, node_vec, data) ==
    LET rm == PathPriv_remove_node(c, node_vec)
    IN  IF rm.panic # "" THEN rm
        ELSE PathPriv_add_node(rm.c, rm.node_vec, data)

\* node_vec.last(): 0 for None
PathPriv_node(node_vec) == IF node_vec = <<>> THEN 0 ELSE node_vec[Len(node_vec)]

\* a propagation that writes the new child into the nodes of the path
PathPriv_propagate_in_place(c, node_vec, node) ==
    LET len == Len(node_vec)
        RECURSIVE in_place_loop(_, _, _)
        in_place_loop(h, new_path, i) ==
            IF i = len - 1 THEN PathSome(h, Reverse(new_path))
            ELSE LET parent == node_vec[len - i - 1]
                     children == (h[parent].children \ {node_vec[len - i]})
                                     \cup {new_path[i + 1]}
                 IN  in_place_loop([h EXCEPT ![parent].children = children],
                                   Append(new_path, parent), i + 1)
    IN  in_place_loop(c, <<node>>, 0)

\* the caller has taken the last node of node_vec, which is then not empty
PathPriv_propagate_last_node_change(c, node_vec, node) ==
    LET len == Len(node_vec)
        RECURSIVE propagate_loop(_, _, _)
        propagate_loop(h, new_path, i) ==
            IF i = len - 1 THEN PathSome(h, Reverse(new_path))
            ELSE LET parent == node_vec[len - i - 1]
                     children == (h[parent].children \ {node_vec[len - i]})
                                     \cup {new_path[i + 1]}
                 IN  IF Cardinality(h[parent].children) # Cardinality(children)
                     THEN PathPanic(h, "assert_children_len")
                     ELSE LET new_parent == Node_new(h, h[parent].data, children)
                          IN  propagate_loop(new_parent.c,
                                             Append(new_path, new_parent.p), i + 1)
    IN  propagate_loop(c, <<node>>, 0)

\* Option<Node>::map(|n| self.propagate_last_node_change(n)) of the PathPriv
\* transforms, and the `None => self.clone()` of the Path transforms
PathPriv_map_propagate(node_vec, r) ==
    IF r.p = 0 THEN PathNone(r.c)
    ELSE PathPriv_propagate_last_node_change(r.c, node_vec, r.p)

Path_or_self(node_vec, r) == IF r.none THEN PathSome(r.c, node_vec) ELSE r

Path_root(c, node_vec) ==
    IF node_vec = <<>> THEN PathPanic(c, "index")
    ELSE PathSome(c, <<node_vec[1]>>)

\* panic = TRUE: the unwrap of node_vec.last() failed
Path_data(c, node_vec) ==
    IF node_vec = <<>> THEN [panic |-> TRUE, data |-> 0]
    ELSE [panic |-> FALSE, data |-> c[PathPriv_node(node_vec)].data]

\* the node_vecs of the paths of children()
Path_children(c, node_vec) ==
    IF node_vec = <<>> THEN [panic |-> TRUE, paths |-> <<>>]
    ELSE LET kids == Ascending(c[PathPriv_node(node_vec)].children)
         IN  [panic |-> FALSE,
              paths |-> [n \in DOMAIN kids |-> Append(node_vec, kids[n])]]

\* &node_vec[0..len - 1]: len - 1 overflows, or the slice is out of range,
\* when node_vec is empty
Path_parent(c, node_vec) ==
    IF node_vec = <<>> THEN PathPanic(c, "slice")
    ELSE PathSome(c, SubSeq(node_vec, 1, Len(node_vec) - 1))

Path_apply(c, node_vec, f) ==
    IF node_vec = <<>> THEN PathPanic(c, "unwrap")
    ELSE Path_or_self(node_vec,
             PathPriv_map_propagate(node_vec, Node_apply(c, PathPriv_node(node_vec), f)))

Path_apply_recursive(c, node_vec, f) ==
    IF node_vec = <<>> THEN PathPanic(c, "unwrap")
    ELSE Path_or_self(node_vec,
             PathPriv_map_propagate(node_vec,
                 Node_apply_recursive(c, PathPriv_node(node_vec), f)))

Path_apply_acc_recursive(c, node_vec, init, f) ==
    IF node_vec = <<>> THEN PathPanic(c, "unwrap")
    ELSE Path_or_self(node_vec,
             PathPriv_map_propagate(node_vec,
                 Node_apply_acc_recursive(c, PathPriv_node(node_vec), init, f)))

Path_filter_recursive(c, node_vec, f) ==
    IF node_vec = <<>> THEN PathPanic(c, "unwrap")
    ELSE PathPriv_map_propagate(node_vec,
             Node_filter_recursive(c, PathPriv_node(node_vec), f))

\* a remove_all_children that rebuilds the path whether or not the focus has
\* children
Path_remove_all_children_always(c, node_vec) ==
    IF node_vec = <<>> THEN PathPanic(c, "unwrap")
    ELSE LET node == PathPriv_node(node_vec)
             n == Node_new(c, c[node].data, {})
         IN  PathPriv_propagate_last_node_change(n.c, node_vec, n.p)

Path_remove_all_children(c, node_vec) ==
    IF node_vec = <<>> THEN PathPanic(c, "unwrap")
    ELSE LET node == PathPriv_node(node_vec)
         IN  IF Cardinality(c[node].children) > 0
             THEN LET n == Node_new(c, c[node].data, {})
                  IN  PathPriv_propagate_last_node_change(n.c, node_vec, n.p)
             ELSE PathSome(c, node_vec)

Path_map_data(c, node_vec, f) ==
    IF node_vec = <<>> THEN PathPanic(c, "index")
    ELSE Path_or_self(node_vec,
             PathPriv_map_propagate(node_vec,
                 Node_map_data(c, PathPriv_node(node_vec), f)))

\* a == b of two paths
Path_eq(a, b) ==
    /\ Len(a) = Len(b)
    /\ \A i \in DOMAIN a : a[i] = b[i]

\* the cells that the paths of the slots reach; every other cell has lost
\* its last handle and is released
RECURSIVE Reached(_, _)
Reached(c, S) ==
    LET T == S \cup UNION {c[p].children : p \in S}
    IN  IF T = S THEN S ELSE Reached(c, T)

PathNodes(node_vec) == {node_vec[i] : i \in DOMAIN node_vec}

Released(c, held) ==
    LET live == Reached(c, UNION {PathNodes(held[s]) : s \in DOMAIN held})
    IN  [p \in DOMAIN c |-> IF p \in live THEN c[p] ELSE FreeCell]

\* the node_vecs of the slots s, s + 1, ..., one after the other
RECURSIVE Flat(_, _)
Flat(held, s) == IF s > NSlots THEN <<>> ELSE held[s] \o Flat(held, s + 1)

\* the number of nodes of the tree that a path belongs to
TreeSize(c, node_vec) ==
    IF node_vec = <<>> THEN 0 ELSE Cardinality(Reached(c, {node_vec[1]}))

\* a Path operation returned its result: the path is stored in slot j (None
\* leaves the slot as it is), the path that slot j held is dropped, and the
\* cells are renamed to the order in which they are met from the slots; a
\* panic ends the process
CommitTree(j, result, op) ==
    \E r \in {result} :
        IF r.panic # ""
        THEN /\ status' = "panic"
             /\ last' = [op EXCEPT !.ret = r.panic]
             /\ UNCHANGED <<kind, vers, abs, fed, heap>>
        ELSE \E held \in {IF r.none THEN vers ELSE [vers EXCEPT ![j] = r.node_vec]} :
             \E c \in {Released(r.c, held)} :
             \E order \in {Met(c, Flat(held, 1), <<>>)} :
             \E at \in {[p \in PathNodes(order) |-> CHOOSE a \in DOMAIN order : order[a] = p]} :
                 /\ vers' = [s \in Slots |-> [n \in DOMAIN held[s] |-> at[held[s][n]]]]
                 /\ heap' = [a \in DOMAIN c |->
                                IF a <= Len(order)
                                THEN [c[order[a]] EXCEPT !.children = {at[k] : k \in @}]
                                ELSE FreeCell]
                 /\ last' = [op EXCEPT !.ret = IF r.none THEN "None" ELSE "Some"]
                 /\ UNCHANGED <<kind, abs, status, fed>>

TreeAddNode(i, j, d) ==
    /\ kind = "Tree" /\ status = "ok"
    /\ TreeSize(heap, vers[i]) < MaxTree
    /\ CommitTree(j, PathPriv_add_node(heap, vers[i], d),
                  Op("add_node", 0, j, d, 0, FALSE, ""))

TreeRemoveNode(i, j) ==
    /\ kind = "Tree" /\ status = "ok"
    /\ CommitTree(j, PathPriv_remove_node(heap, vers[i]),
                  Op("remove_node", 0, j, 0, 0, FALSE, ""))

TreeSetData(i, j, d) ==
    /\ kind = "Tree" /\ status = "ok"
    /\ CommitTree(j, PathPriv_set_data(heap, vers[i], d),
                  Op("set_data", 0, j, d, 0, FALSE, ""))

TreeRoot(i, j) ==
    /\ kind = "Tree" /\ status = "ok"
    /\ CommitTree(j, Path_root(heap, vers[i]), Op("root", 0, j, 0, 0, FALSE, ""))

TreeParent(i, j) ==
    /\ kind = "Tree" /\ status = "ok"
    /\ CommitTree(j, Path_parent(heap, vers[i]), Op("parent", 0, j, 0, 0, FALSE, ""))

\* slot j takes the n-th path of vers[i].children()
TreeChildren(i, j, n) ==
    /\ kind = "Tree" /\ status = "ok"
    /\ LET r == Path_children(heap, vers[i])
       IN  IF r.panic
           THEN CommitTree(j, PathPanic(heap, "unwrap"),
                           Op("children", 0, j, 0, 0, FALSE, ""))
           ELSE /\ n \in DOMAIN r.paths
                /\ CommitTree(j, PathSome(heap, r.paths[n]),
                              Op("children", 0, j, 0, 0, FALSE, ""))

TreeApply(i, j, f) ==
    /\ kind = "Tree" /\ status = "ok"
    /\ CommitTree(j, Path_apply(heap, vers[i], f), Op("apply", 0, j, 0, 0, FALSE, ""))

TreeApplyRecursive(i, j, f) ==
    /\ kind = "Tree" /\ status = "ok"
    /\ CommitTree(j, Path_apply_recursive(heap, vers[i], f),
                  Op("apply_recursive", 0, j, 0, 0, FALSE, ""))

TreeApplyAccRecursive(i, j, f) ==
    /\ kind = "Tree" /\ status = "ok"
    /\ CommitTree(j, Path_apply_acc_recursive(heap, vers[i], <<>>, f),
                  Op("apply_acc_recursive", 0, j, 0, 0, FALSE, ""))

TreeFilterRecursive(i, j, f) ==
    /\ kind = "Tree" /\ status = "ok"
    /\ CommitTree(j, Path_filter_recursive(heap, vers[i], f),
                  Op("filter_recursive", 0, j, 0, 0, FALSE, ""))

TreeMapData(i, j, f) ==
    /\ kind = "Tree" /\ status = "ok"
    /\ CommitTree(j, Path_map_data(heap, vers[i], f),
                  Op("map_data", 0, j, 0, 0, FALSE, ""))

TreeRemoveAllChildren(i, j) ==
    /\ kind = "Tree" /\ status = "ok"
    /\ CommitTree(j, Path_remove_all_children(heap, vers[i]),
                  Op("remove_all_children", 0, j, 0, 0, FALSE, ""))

(***************************************************************************)
(* Spec: a program that holds NSlots versions of one container type.  It   *)
(* applies an operation to the version of any slot and stores the result   *)
(* in any slot, so that old versions stay in use next to the versions made *)
(* from them.  It inserts while len() < MaxLen; the maps and the hash set   *)
(* use every other key (keys 1 and 3 share a sub-branch of the hash trie). *)
(***************************************************************************)
Init == InitOf({"List", "Queue", "Set", "Map", "HashSet", "HashMap"})

Next ==
    \E i \in Slots, j \in Slots :
        \/ \E e \in Elems : ListPush(i, j, e)
        \/ ListPop(i, j)
        \/ ListRev(i, j)
        \/ \E e \in Elems : QueueEnqueue(i, j, e)
        \/ QueueDequeue(i, j)
        \/ \E k \in PKeys : kind = "Set" /\ Set_len(vers[i]) < MaxLen /\ SetInsert(i, j, k)
        \/ \E k \in PKeys : SetRemove(i, j, k)
        \/ \E k \in PAltKeys, v \in Vals :
              kind = "Map" /\ Map_len(vers[i]) < MaxLen /\ MapInsert(i, j, k, v)
        \/ \E k \in PAltKeys : MapRemove(i, j, k)
        \/ \E k \in PAltKeys :
              kind = "HashSet" /\ HashSet_len(vers[i]) < MaxLen /\ HashSetInsert(i, j, k)
        \/ \E k \in PAltKeys : HashSetRemove(i, j, k)
        \/ \E k \in PAltKeys, v \in Vals :
              kind = "HashMap" /\ HashMap_len(vers[i]) < MaxLen /\ HashMapInsert(i, j, k, v)
        \/ \E k \in PAltKeys : HashMapRemove(i, j, k)

Spec == Init /\ [][Next]_vars

(***************************************************************************)
(* SpecOrdered: a program that keeps the latest version of one Set or of   *)
(* one Map, starting from empty().                                         *)
(***************************************************************************)
InitOrdered == InitOf({"Set", "Map"})

NextOrdered ==
    \/ \E k \in Keys : SetInsert(1, 1, k)
    \/ \E k \in Keys : SetRemove(1, 1, k)
    \/ \E k \in MapKeys, v \in Vals : MapInsert(1, 1, k, v)
    \/ \E k \in MapKeys : MapRemove(1, 1, k)

SpecOrdered == InitOrdered /\ [][NextOrdered]_vars

(***************************************************************************)
(* SpecHash: a program that keeps the latest version of one HashSet or of  *)
(* one HashMap, starting from empty().                                     *)
(***************************************************************************)
InitHash == InitOf({"HashSet", "HashMap"})

NextHash ==
    \/ \E k \in HKeys : HashSetInsert(1, 1, k)
    \/ \E k \in HKeys : HashSetRemove(1, 1, k)
    \/ \E k \in HKeys, v \in Vals : HashMapInsert(1, 1, k, v)
    \/ \E k \in HKeys : HashMapRemove(1, 1, k)

SpecHash == InitHash /\ [][NextHash]_vars

(***************************************************************************)
(* SpecLinear: a program that keeps the latest version of one List or of   *)
(* one Queue, starting from empty().                                       *)
(***************************************************************************)
InitLinear == InitOf({"List", "Queue"})

NextLinear ==
    \/ \E e \in Elems : ListPush(1, 1, e)
    \/ ListPop(1, 1)
    \/ ListRev(1, 1)
    \/ \E e \in Elems : QueueEnqueue(1, 1, e)
    \/ QueueDequeue(1, 1)

SpecLinear == InitLinear /\ [][NextLinear]_vars

(***************************************************************************)
(* SpecTree: a program that keeps the latest path of one tree, starting    *)
(* from Path::new(d).  It adds nodes while the tree has fewer than MaxTree *)
(* nodes.                                                                  *)
(***************************************************************************)
InitTree ==
    /\ kind = "Tree"
    /\ \E d \in [Slots -> Data] :
          heap = [p \in TreeCells |-> IF p \in Slots THEN NodePriv(d[p], {}) ELSE FreeCell]
    /\ vers = [s \in Slots |-> <<s>>]
    /\ abs = [s \in Slots |-> <<>>]
    /\ last = [NoOp EXCEPT !.ret = ""]
    /\ status = "ok"
    /\ fed = 0

NextTree ==
    \/ \E d \in Data : TreeAddNode(1, 1, d)
    \/ TreeRemoveNode(1, 1)
    \/ \E d \in Data : TreeSetData(1, 1, d)
    \/ TreeRoot(1, 1)
    \/ TreeParent(1, 1)
    \/ \E n \in 1..MaxTree : TreeChildren(1, 1, n)
    \/ \E f \in DataFns : TreeApply(1, 1, f)
    \/ \E f \in DataFns : TreeApplyRecursive(1, 1, f)
    \/ \E f \in AccFns : TreeApplyAccRecursive(1, 1, f)
    \/ \E f \in DataPreds : TreeFilterRecursive(1, 1, f)
    \/ \E f \in DataFns : TreeMapData(1, 1, f)
    \/ TreeRemoveAllChildren(1, 1)

SpecTree == InitTree /\ [][NextTree]_vars

(***************************************************************************)
(* SpecTreeShared: a program that works on the path of slot 1 and keeps    *)
(* paths in the other slots.  It applies a mutation or a move to the path  *)
(* of slot 1 and stores the path that is returned in any slot, so that     *)
(* paths into old trees stay in use next to the trees made from them.  It  *)
(* adds nodes while the tree has fewer than MaxShared nodes, and its       *)
(* functions replace one kind of data.                                     *)
(***************************************************************************)
NextTreeShared ==
    \E j \in Slots :
        \/ \E d \in Data :
              kind = "Tree" /\ TreeSize(heap, vers[1]) < MaxShared /\ TreeAddNode(1, j, d)
        \/ TreeRemoveNode(1, j)
        \/ \E d \in Data : TreeSetData(1, j, d)
        \/ TreeParent(1, j)
        \/ \E n \in 1..MaxShared : TreeChildren(1, j, n)
        \/ \E f \in OneFns : TreeApply(1, j, f)
        \/ \E f \in OneFns : TreeApplyRecursive(1, j, f)
        \/ \E f \in DataPreds : TreeFilterRecursive(1, j, f)
        \/ TreeRemoveAllChildren(1, j)

SpecTreeShared == InitTree /\ [][NextTreeShared]_vars

(***************************************************************************)
(* SpecLatest: a program that keeps the latest version of one container   *)
(* of any of the six types, starting from empty().                         *)
(***************************************************************************)
InitLatest == InitOf({"List", "Queue", "Set", "Map", "HashSet", "HashMap"})

NextLatest ==
    \/ \E e \in Elems : ListPush(1, 1, e)
    \/ ListPop(1, 1)
    \/ ListRev(1, 1)
    \/ \E e \in Elems : QueueEnqueue(1, 1, e)
    \/ QueueDequeue(1, 1)
    \/ \E k \in Keys : SetInsert(1, 1, k)
    \/ \E k \in Keys : SetRemove(1, 1, k)
    \/ \E k \in MapKeys, v \in Vals : MapInsert(1, 1, k, v)
    \/ \E k \in MapKeys : MapRemove(1, 1, k)
    \/ \E k \in HKeys : HashSetInsert(1, 1, k)
    \/ \E k \in HKeys : HashSetRemove(1, 1, k)
    \/ \E k \in HKeys, v \in Vals : HashMapInsert(1, 1, k, v)
    \/ \E k \in HKeys : HashMapRemove(1, 1, k)

SpecLatest == InitLatest /\ [][NextLatest]_vars

(***************************************************************************)
(* SpecSetDeep: a program that builds one Set by a fixed sequence of        *)
(* inserts of distinct keys and then removes some of these keys, in any    *)
(* order.                                                                  *)
(***************************************************************************)
DeepInserts == <<5, 13, 18, 9, 15, 17, 3, 12, 7, 8, 2, 10, 14, 6, 19, 16, 11, 1, 4>>

DeepRemovable == {7, 9, 10, 11, 13, 14, 15, 16, 17, 18}

SetFeed ==
    /\ kind = "Set" /\ status = "ok"
    /\ fed < Len(DeepInserts)
    /\ fed' = fed + 1
    /\ LET k == DeepInserts[fed + 1]
           new == Set_insert(vers[1], k)
       IN  /\ vers' = [vers EXCEPT ![1] = new]
           /\ abs' = [abs EXCEPT ![1] = abs[1] \cup {k}]
           /\ last' = Op("insert", 1, 1, k, 0, k \in abs[1], 0)
    /\ UNCHANGED <<kind, status, heap>>

SetDrain(k) ==
    /\ fed = Len(DeepInserts)
    /\ k \in abs[1]
    /\ SetRemove(1, 1, k)

InitSetDeep == InitOf({"Set"})

NextSetDeep ==
    \/ SetFeed
    \/ \E k \in DeepRemovable : SetDrain(k)

SpecSetDeep == InitSetDeep /\ [][NextSetDeep]_vars

(***************************************************************************)
(* Observations of a version of either ordered container.                  *)
(***************************************************************************)
Range(f) == {f[i] : i \in DOMAIN f}

StrictlyAscending(f) == \A i \in DOMAIN f : i + 1 \in DOMAIN f => f[i] < f[i + 1]

OrderedKinds == {"Set", "Map"}

\* the keys of to_vec(), in its order
OrderedKeysVec(c, v) ==
    IF c = "Set" THEN Set_to_vec(v)
    ELSE LET pairs == Map_to_vec(v) IN [i \in DOMAIN pairs |-> pairs[i][1]]

OrderedExist(c, v, k) == IF c = "Set" THEN Set_exist(v, k) ELSE Map_exist(v, k)

OrderedLen(c, v) == IF c = "Set" THEN Set_len(v) ELSE Map_len(v)

OrderedHeight(c, v) == IF c = "Set" THEN Set_height(v) ELSE Map_height(v)

AbsKeys(c, a) == IF c \in {"Set", "HashSet"} THEN a ELSE DOMAIN a

\* keys a program may ask for: those it inserts, and two it never inserts
ProbeKeys == 0..(NKeys + 1)

\* C3: in every Set and Map version reached by inserts and removes from
\* empty(), to_vec() is strictly ascending by key and holds exactly the keys
\* inserted and not removed afterwards, and exist(k) / find(k) is true / Some
\* exactly for those keys.
C3_OrderedContents ==
    kind \in OrderedKinds =>
        \A s \in Slots :
            LET keys == OrderedKeysVec(kind, vers[s])
            IN  /\ StrictlyAscending(keys)
                /\ Range(keys) = AbsKeys(kind, abs[s])
                /\ \A k \in ProbeKeys :
                      /\ OrderedExist(kind, vers[s], k) <=> k \in AbsKeys(kind, abs[s])
                      /\ kind = "Map" =>
                            (Map_find(vers[s], k) # None <=> k \in DOMAIN abs[s])

\* a Map from which a present key was just removed while two other keys stay
C3_Witness ==
    /\ kind = "Map" /\ last.op = "remove" /\ last.had
    /\ Cardinality(DOMAIN abs[1]) = 2
    /\ ~Map_exist(vers[1], last.k)

\* C5: Set.insert / Map.insert return a container whose len() is the old
\* len() + 1 when the key was absent and the old len() when it was present.
C5_InsertLen ==
    [][(kind \in OrderedKinds /\ last'.op = "insert" /\ status' = "ok") =>
          OrderedLen(kind, vers'[last'.dst]) =
              OrderedLen(kind, vers[last'.src]) + (IF last'.had THEN 0 ELSE 1)]_vars

\* C6: Map.insert(k, v) on a map that already holds k returns a map where
\* find(k) is the new value v and every other key keeps its value.
C6_MapInsertReplaces ==
    [][(kind = "Map" /\ last'.op = "insert" /\ last'.had /\ status' = "ok") =>
          /\ Map_find(vers'[last'.dst], last'.k) = Some(last'.v)
          /\ \A k \in MapKeys \ {last'.k} :
                Map_find(vers'[last'.dst], k) = Map_find(vers[last'.src], k)]_vars

RECURSIVE OrderedBalanced(_, _)
OrderedBalanced(c, t) ==
    t.t = "Node" =>
        LET hl == IF c = "Set" THEN SetNode_height(t.l) ELSE MapNode_height(t.l)
            hr == IF c = "Set" THEN SetNode_height(t.r) ELSE MapNode_height(t.r)
        IN  /\ hl - hr <= 2
            /\ hr - hl <= 2
            /\ OrderedBalanced(c, t.l)
            /\ OrderedBalanced(c, t.r)

\* C9: in every reachable Set or Map tree every inner node satisfies
\* |height(left) - height(right)| <= 2, also after the removal of a key whose
\* node has two children.
C9_Balanced ==
    kind \in OrderedKinds => \A s \in Slots : OrderedBalanced(kind, vers[s].n)

\* C10: every Set or Map reached by inserts and removes satisfies
\* height() <= 2 * log2(len() + 2), that is 2^height() <= (len() + 2)^2.
C10_HeightBound ==
    kind \in OrderedKinds =>
        \A s \in Slots :
            Pow2(OrderedHeight(kind, vers[s])) <=
                (OrderedLen(kind, vers[s]) + 2) * (OrderedLen(kind, vers[s]) + 2)

(***************************************************************************)
(* Observations of a version of either hash container.                     *)
(***************************************************************************)
HashKinds == {"HashSet", "HashMap"}

\* the keys of to_vec(), in its order
HashKeysVec(c, v) ==
    IF c = "HashSet" THEN HashSet_to_vec(v)
    ELSE LET pairs == HashMap_to_vec(v) IN [i \in DOMAIN pairs |-> pairs[i][1]]

HashExist(c, v, k) == IF c = "HashSet" THEN HashSet_exist(v, k) ELSE HashMap_exist(v, k)

HashLen(c, v) == IF c = "HashSet" THEN HashSet_len(v) ELSE HashMap_len(v)

HashProbeKeys == 0..(NHKeys + 1)

\* C4: in every HashSet and HashMap version reached by inserts and removes
\* from empty(), to_vec() holds exactly the keys inserted and not removed
\* afterwards, each once; exist(k) is true exactly for those keys; len() is
\* the number of distinct keys stored.
C4_HashContents ==
    kind \in HashKinds =>
        \A s \in Slots :
            LET keys == HashKeysVec(kind, vers[s])
                stored == AbsKeys(kind, abs[s])
            IN  /\ Range(keys) = stored
                /\ Len(keys) = Cardinality(stored)
                /\ \A k \in HashProbeKeys : HashExist(kind, vers[s], k) <=> k \in stored
                /\ HashLen(kind, vers[s]) = Cardinality(stored)

\* a HashSet whose keys 1 and 3 sat in one sub-branch, after the removal of
\* one of them while key 2 stays
C4_Witness ==
    /\ kind = "HashSet" /\ last.op = "remove" /\ last.had /\ last.k \in {1, 3}
    /\ Cardinality(abs[1]) = 2 /\ 2 \in abs[1]
    /\ HashSet_len(vers[1]) = 2
    /\ vers[1].n.t = "Node" /\ vers[1].n.slice[0].t = "Node"

\* C7: HashMap.insert(k, v2) on a map that already holds k returns a map in
\* which find(k) is Some(v2), len() is the old len(), and every other key is
\* present or absent as before, with its previous value.
C7_HashMapUpsert ==
    [][(kind = "HashMap" /\ last'.op = "insert" /\ last'.had /\ status' = "ok") =>
          /\ HashMap_find(vers'[last'.dst], last'.k) = Some(last'.v)
          /\ HashMap_len(vers'[last'.dst]) = HashMap_len(vers[last'.src])
          /\ \A k \in HashProbeKeys \ {last'.k} :
                HashMap_find(vers'[last'.dst], k) = HashMap_find(vers[last'.src], k)]_vars

\* a HashMap of three keys where key 3, which shares a sub-branch with key 1,
\* was just inserted again and now has another value than key 1
C7_Witness ==
    /\ kind = "HashMap" /\ last.op = "insert" /\ last.had /\ last.k = 3
    /\ DOMAIN abs[1] = {1, 2, 3}
    /\ HashMap_find(vers[1], 3) = Some(last.v)
    /\ HashMap_find(vers[1], 1) # Some(last.v)
    /\ HashMap_len(vers[1]) = 3

\* C8: when a HashSet or HashMap holds exactly one key and a distinct key of
\* the same 64-bit hash is inserted, the insert returns, and the new version
\* has len() = 2 with both keys found.
C8_CollidingInsert ==
    [][(/\ kind \in HashKinds /\ last'.op = "insert"
        /\ \E k2 \in AbsKeys(kind, abs[last'.src]) :
              /\ AbsKeys(kind, abs[last'.src]) = {k2}
              /\ k2 # last'.k /\ hash(k2) = hash(last'.k)) =>
          /\ status' = "ok"
          /\ HashLen(kind, vers'[last'.dst]) = 2
          /\ \A k \in AbsKeys(kind, abs[last'.src]) \cup {last'.k} :
                HashExist(kind, vers'[last'.dst], k)]_vars

(***************************************************************************)
(* Observations of a List or Queue version.                                *)
(***************************************************************************)
\* the handles to cell p: those of the slots, of list nodes, of queue nodes
Referrers(c, p) ==
    Cardinality({s \in Slots : vers[s] = p})
      + Cardinality({q \in DOMAIN c : c[q].t = "Node" /\ c[q].l = p})
      + Cardinality({q \in DOMAIN c : c[q].t = "QNode" /\ c[q].back = p})
      + Cardinality({q \in DOMAIN c : c[q].t = "QNode" /\ c[q].front = p})

\* every cell in use is counted by its owners, and no cell is lost
HeapCounted ==
    kind \in HeapKinds =>
        \A p \in Cells : heap[p].t # "Free" => heap[p].rc = Referrers(heap, p)

\* C2: along a history of enqueue and dequeue on the latest Queue version,
\* to_vec() is the sequence of the enqueued elements without the dequeued
\* prefix and len() is its length; a dequeue returns the head of the previous
\* to_vec() and a queue whose to_vec() is the previous one without its head.
C2_QueueFifo ==
    [][(kind = "Queue" /\ status' = "ok") =>
          /\ Queue_to_vec(heap', vers'[last'.dst]).v = abs'[last'.dst]
          /\ ~Queue_to_vec(heap', vers'[last'.dst]).panic
          /\ Queue_len(heap', vers'[last'.dst]) = Len(abs'[last'.dst])
          /\ last'.op = "dequeue" =>
                /\ Queue_to_vec(heap, vers[last'.src]).v # <<>>
                /\ last'.ret = Head(Queue_to_vec(heap, vers[last'.src]).v)
                /\ Queue_to_vec(heap', vers'[last'.dst]).v =
                      Tail(Queue_to_vec(heap, vers[last'.src]).v)]_vars

\* a dequeue that had to reverse a back list of three elements, two of them
\* different, and left the other two in the front list
C2_Witness ==
    /\ kind = "Queue" /\ last.op = "dequeue" /\ status = "ok"
    /\ Len(abs[1]) = 2 /\ last.ret # abs[1][1]
    /\ heap[vers[1]].t = "QNode"
    /\ List_len(heap, heap[vers[1]].back) = 0
    /\ List_len(heap, heap[vers[1]].front) = 2

(***************************************************************************)
(* What a program sees of a version: len() and to_vec().                   *)
(***************************************************************************)
VersionObs(c, x) ==
    CASE kind = "List" -> <<List_len(c, x), List_to_vec(c, x)>>
      [] kind = "Queue" -> <<Queue_len(c, x), Queue_to_vec(c, x).v>>
      [] kind = "Set" -> <<Set_len(x), Set_to_vec(x)>>
      [] kind = "Map" -> <<Map_len(x), Map_to_vec(x)>>
      [] kind = "HashSet" -> <<HashSet_len(x), HashSet_to_vec(x)>>
      [] kind = "HashMap" -> <<HashMap_len(x), HashMap_to_vec(x)>>

\* C1: an operation on any retained version of a List, Queue, Set, Map,
\* HashSet or HashMap leaves len() and to_vec() of every version the program
\* still holds as they were; only the slot that receives the result changes
\* (the version it held is dropped).
C1_OldVersionsKept ==
    [][\A s \in Slots :
          s # last'.dst => VersionObs(heap', vers'[s]) = VersionObs(heap, vers[s])]_vars

\* a List of three elements whose pop went to the other slot: the old version
\* is still whole and the new one is its tail, a node with two owners
C1_Witness ==
    /\ kind = "List" /\ last.op = "pop" /\ status = "ok"
    /\ last.src = 1 /\ last.dst = 2
    /\ List_len(heap, vers[1]) = 3 /\ List_to_vec(heap, vers[1]) = abs[1]
    /\ heap[vers[1]].l = vers[2]
    /\ heap[vers[2]].rc = 2
    /\ List_to_vec(heap, vers[2]) = Tail(abs[1])

(***************************************************************************)
(* The tree and its paths.  A claim about what an operation returns is     *)
(* stated on the result of the operation in every state that the program   *)
(* reaches, for every slot and argument: the handles of the result and of  *)
(* the path it was made from are then handles of one heap.                 *)
(***************************************************************************)
TreeRuns == kind = "Tree" /\ status = "ok"

Focus(node_vec) == node_vec[Len(node_vec)]

\* the node at position i of the path made is the node at position i of the
\* old path rebuilt: same data, and the old children with the old next node
\* of the path replaced by the new one
SpineRebuilt(c, old, h, new, i) ==
    /\ h[new[i]].data = c[old[i]].data
    /\ h[new[i]].children = (c[old[i]].children \ {old[i + 1]}) \cup {new[i + 1]}
    /\ old[i + 1] \in c[old[i]].children
    /\ new[i + 1] \notin c[old[i]].children

\* C11: set_data(d) on a path of length >= 2 returns a path of the same
\* length whose focus has data d and the children set of the old focus, and
\* whose other nodes are the nodes of the old path rebuilt.
C11_SetDataFrame ==
    TreeRuns =>
        \A s \in Slots, d \in Data :
            Len(vers[s]) >= 2 =>
                LET r == PathPriv_set_data(heap, vers[s], d)
                IN  /\ r.panic = ""
                    /\ Len(r.node_vec) = Len(vers[s])
                    /\ r.c[Focus(r.node_vec)].data = d
                    /\ r.c[Focus(r.node_vec)].children = heap[Focus(vers[s])].children
                    /\ \A i \in 1..(Len(vers[s]) - 1) :
                           SpineRebuilt(heap, vers[s], r.c, r.node_vec, i)

\* C12: in every path that the program holds, each node after the first is
\* in the children set of the node before it, and the adjacency assertion
\* of add_node has not failed.
C12_PathAdjacent ==
    kind = "Tree" =>
        /\ \A s \in Slots : \A i \in 2..Len(vers[s]) :
               vers[s][i] \in heap[vers[s][i - 1]].children
        /\ last.ret # "assert_adjacent"

\* add_node has run its assertions on a path of length >= 2
C12_Witness ==
    /\ TreeRuns
    /\ last.op = "add_node" /\ last.ret = "Some"
    /\ Len(vers[last.dst]) >= 3

\* C13: add_node(d) on a path of length n returns a path of length n + 1
\* that starts at the root of the new tree; its last node has data d and no
\* children, the node before it has the data of the old focus and the
\* children of the old focus plus the new node, and every node above is the
\* old node rebuilt with the old next node replaced by the new one (same
\* number of children, the siblings being the same untouched cells).
C13_AddNodeShape ==
    TreeRuns =>
        \A s \in Slots, d \in Data :
            Len(vers[s]) >= 1 =>
                LET n == Len(vers[s])
                    r == PathPriv_add_node(heap, vers[s], d)
                    new == r.node_vec
                IN  /\ r.panic = ""
                    /\ Len(new) = n + 1
                    /\ PathNodes(new) \subseteq Reached(r.c, {new[1]})
                    /\ r.c[new[n + 1]].data = d
                    /\ r.c[new[n + 1]].children = {}
                    /\ r.c[new[n]].data = heap[vers[s][n]].data
                    /\ r.c[new[n]].children = heap[vers[s][n]].children \cup {new[n + 1]}
                    /\ new[n + 1] \notin heap[vers[s][n]].children
                    /\ \A i \in 1..(n - 1) :
                           /\ SpineRebuilt(heap, vers[s], r.c, new, i)
                           /\ Cardinality(r.c[new[i]].children)
                                  = Cardinality(heap[vers[s][i]].children)
                    /\ \A i \in 1..n : \A p \in r.c[new[i]].children \ {new[i + 1]} :
                           r.c[p] = heap[p]

\* add_node has made a path of length 3 under a root that has two children
C13_Witness ==
    /\ TreeRuns
    /\ last.op = "add_node" /\ last.ret = "Some"
    /\ Len(vers[last.dst]) = 3
    /\ Cardinality(heap[vers[last.dst][1]].children) >= 2

\* C14: remove_node() on a path of length n >= 2 returns a path of length
\* n - 1 whose focus is the former parent rebuilt without the removed node
\* (the siblings being the same untouched cells) and whose ancestors are
\* rebuilt with the old child replaced by the new one; on a path of length
\* 1 it fails its assertion.
C14_RemoveNode ==
    TreeRuns =>
        \A s \in Slots :
            Len(vers[s]) >= 1 =>
                LET n == Len(vers[s])
                    r == PathPriv_remove_node(heap, vers[s])
                    new == r.node_vec
                IN  IF n = 1 THEN r.panic = "assert_len"
                    ELSE /\ r.panic = ""
                         /\ Len(new) = n - 1
                         /\ r.c[new[n - 1]].data = heap[vers[s][n - 1]].data
                         /\ r.c[new[n - 1]].children
                                = heap[vers[s][n - 1]].children \ {vers[s][n]}
                         /\ vers[s][n] \in heap[vers[s][n - 1]].children
                         /\ \A i \in 1..(n - 2) :
                                SpineRebuilt(heap, vers[s], r.c, new, i)
                         /\ \A i \in 1..(n - 1) : \A p \in r.c[new[i]].children :
                                (i < n - 1 /\ p = new[i + 1]) \/ r.c[p] = heap[p]

\* remove_node has taken the focus off a path of length 3 whose root has
\* two children
C14_Witness ==
    /\ TreeRuns
    /\ last.op = "remove_node" /\ last.ret = "Some"
    /\ Len(vers[last.dst]) = 2
    /\ Cardinality(heap[vers[last.dst][1]].children) >= 2

\* remove_node on a root-only path has ended the process
C14_Rejected == last.op = "remove_node" /\ last.ret = "assert_len" /\ status = "panic"

\* what a program sees of a node without its address: its data and, for
\* each subtree among its children, how many children carry it
RECURSIVE TreeValue(_, _)
TreeValue(c, p) ==
    LET kids == {TreeValue(c, k) : k \in c[p].children}
    IN  [data |-> c[p].data,
         children |-> [v \in kids |->
                          Cardinality({k \in c[p].children : TreeValue(c, k) = v})]]

\* what a program sees of a path: the tree under each of its nodes
PathValue(c, node_vec) == [i \in DOMAIN node_vec |-> TreeValue(c, node_vec[i])]

TreeMutations ==
    {"add_node", "remove_node", "set_data", "apply", "apply_recursive",
     "filter_recursive", "remove_all_children"}

\* C15: a step of the program (a mutation through a path, or a move) leaves
\* the tree of every path that the program still holds as it was: each node
\* of the path has the same data and the same subtrees under it.  Only the
\* slot that receives the result holds another path.
C15_OldTreeKept ==
    [][\A s \in Slots :
           (s # last'.dst \/ last'.ret # "Some") =>
               PathValue(heap', vers'[s]) = PathValue(heap, vers[s])]_vars

\* a mutation has put a new tree into slot 1 while slot 2 holds a path of
\* length 2 into the old tree, and the two trees share a node
C15_Witness ==
    /\ TreeRuns
    /\ last.op \in TreeMutations /\ last.ret = "Some" /\ last.dst = 1
    /\ Len(vers[1]) >= 1 /\ Len(vers[2]) >= 2
    /\ vers[1][1] # vers[2][1]
    /\ Reached(heap, {vers[1][1]}) \cap Reached(heap, {vers[2][1]}) # {}

\* the nodes under p (p included) that f replaces the data of
Replaced(c, p, f) == {q \in Reached(c, {p}) : f[c[q].data] # 0}

\* q in the heap h stands for the subtree of p in the heap c after f: a
\* subtree that f replaces nothing in is the same cell; any other node is a
\* new cell with the data that f gave (or the old data) and, one for one,
\* the children that stand for the children of p
RECURSIVE Transformed(_, _, _, _, _)
Transformed(c, p, h, q, f) ==
    IF Replaced(c, p, f) = {} THEN q = p
    ELSE /\ c[q].t = "Free"
         /\ h[q].data = (IF f[c[p].data] # 0 THEN f[c[p].data] ELSE c[p].data)
         /\ \E m \in [c[p].children -> h[q].children] :
                /\ \A k1, k2 \in c[p].children : m[k1] = m[k2] => k1 = k2
                /\ {m[k] : k \in c[p].children} = h[q].children
                /\ \A k \in c[p].children : Transformed(c, k, h, m[k], f)

\* the nodes under p that f replaces the data of or that have such a node
\* under them
ToRebuild(c, p, f) == {q \in Reached(c, {p}) : Replaced(c, q, f) # {}}

InUse(c) == {p \in DOMAIN c : c[p].t # "Free"}

\* r is what a recursive transform by f should return for the path node_vec
TransformResult(c, node_vec, r, f) ==
    LET n == Len(node_vec)
        new == r.node_vec
    IN  /\ r.panic = "" /\ ~r.none
        /\ \A p \in InUse(c) : r.c[p] = c[p]
        /\ IF Replaced(c, Focus(node_vec), f) = {}
           THEN Path_eq(new, node_vec) /\ r.c = c
           ELSE /\ Len(new) = n
                /\ Transformed(c, node_vec[n], r.c, new[n], f)
                /\ \A i \in 1..(n - 1) : SpineRebuilt(c, node_vec, r.c, new, i)
                /\ Cardinality(InUse(r.c) \ InUse(c))
                       = Cardinality(ToRebuild(c, Focus(node_vec), f)) + n - 1

\* C16: apply_recursive(f) and map_data(f) make new nodes for exactly the
\* nodes under the focus that f replaces the data of or that have such a
\* node under them, and for the nodes of the path above the focus; every
\* other subtree is the same cell as before; when f returns None for every
\* node the path returned is == to the path given and nothing is made.
C16_TransformSharing ==
    TreeRuns =>
        \A s \in Slots, f \in DataFns :
            Len(vers[s]) >= 1 =>
                /\ TransformResult(heap, vers[s], Path_apply_recursive(heap, vers[s], f), f)
                /\ TransformResult(heap, vers[s], Path_map_data(heap, vers[s], f), f)

\* a recursive transform has run on a focus below the root that has two
\* children of different data
C16_Witness ==
    /\ TreeRuns
    /\ last.op \in {"apply_recursive", "map_data"} /\ last.ret = "Some"
    /\ Len(vers[last.dst]) >= 2
    /\ \E k1, k2 \in heap[Focus(vers[last.dst])].children :
           heap[k1].data # heap[k2].data

\* the tree under p without the nodes whose data fails f and without what
\* is under them (p itself is taken to pass), as TreeValue shows a tree
RECURSIVE FilteredValue(_, _, _)
FilteredValue(c, p, f) ==
    LET kept == {k \in c[p].children : f[c[k].data]}
        kids == {FilteredValue(c, k, f) : k \in kept}
    IN  [data |-> c[p].data,
         children |-> [v \in kids |->
                          Cardinality({k \in kept : FilteredValue(c, k, f) = v})]]

\* C17: filter_recursive(pred) returns None when the data of the focus
\* fails pred; otherwise it returns a path of the same length whose focus
\* holds the nodes under the old focus that pass pred together with all the
\* nodes between them and the focus, with their data and their parents; the
\* nodes above the focus are rebuilt, and with a pred that is always true
\* the path shows the same tree as before.
C17_FilterRecursive ==
    TreeRuns =>
        \A s \in Slots, f \in DataPreds :
            Len(vers[s]) >= 1 =>
                LET n == Len(vers[s])
                    r == Path_filter_recursive(heap, vers[s], f)
                    new == r.node_vec
                IN  /\ r.panic = ""
                    /\ r.none = ~f[heap[Focus(vers[s])].data]
                    /\ ~r.none =>
                           /\ Len(new) = n
                           /\ TreeValue(r.c, new[n]) = FilteredValue(heap, vers[s][n], f)
                           /\ \A i \in 1..(n - 1) :
                                  SpineRebuilt(heap, vers[s], r.c, new, i)
                           /\ (\A d \in Data : f[d]) =>
                                  PathValue(r.c, new) = PathValue(heap, vers[s])

\* filter_recursive has returned a path below the root whose focus kept a
\* child
C17_Witness ==
    /\ TreeRuns
    /\ last.op = "filter_recursive" /\ last.ret = "Some"
    /\ Len(vers[last.dst]) >= 2
    /\ heap[Focus(vers[last.dst])].children # {}

\* C18: every path that the program holds is a non-empty sequence of nodes:
\* data() of it is defined.
C18_PathNonEmpty ==
    TreeRuns => \A s \in Slots : ~Path_data(heap, vers[s]).panic

(***************************************************************************)
(* The two lists of a queue, and the operations that fail on an empty      *)
(* container.                                                              *)
(***************************************************************************)
QueueCells == {p \in Cells : heap[p].t \in {"QEmpty", "QNode"}}

ListCells == {p \in Cells : heap[p].t \in {"Nil", "Node"}}

\* C19, as the specification states it: in every queue the front list is
\* empty only when the back list is empty too.
C19_FrontEmptyOnlyWhenBackEmpty ==
    kind = "Queue" =>
        \A q \in QueueCells :
            heap[q].t = "QNode" =>
                (List_len(heap, heap[q].front) = 0 => List_len(heap, heap[q].back) = 0)

\* C19, amended: in every queue reached by enqueue and dequeue a Node never
\* holds two empty lists (the queue of no elements is Empty); its front
\* list may be empty while its back list is not.
C19_NodeNeverEmpty ==
    kind = "Queue" =>
        \A q \in QueueCells :
            heap[q].t = "QNode" =>
                List_len(heap, heap[q].back) + List_len(heap, heap[q].front) > 0

\* a dequeue has taken the last element of the front list and left a queue
\* of an empty front list and a back list of two elements
C19_Witness ==
    /\ kind = "Queue" /\ status = "ok" /\ last.op = "dequeue"
    /\ heap[vers[1]].t = "QNode"
    /\ List_len(heap, heap[vers[1]].front) = 0
    /\ List_len(heap, heap[vers[1]].back) = 2

\* C20: pop and top of a list fail exactly when its len() is 0, and dequeue
\* of a queue fails exactly when its len() is 0; dequeue of a Node never
\* fails, neither in its unreachable arm nor in the pop or top of a list.
C20_FailsExactlyWhenEmpty ==
    status = "ok" =>
        /\ kind \in {"List", "Queue"} =>
               \A l \in ListCells :
                   /\ (List_pop(heap, l).p = 0) = (List_len(heap, l) = 0)
                   /\ List_top(heap, l).panic = (List_len(heap, l) = 0)
        /\ kind = "Queue" =>
               \A q \in QueueCells :
                   /\ (Queue_dequeue(heap, q).p = 0) = (Queue_len(heap, q) = 0)
                   /\ heap[q].t = "QNode" => Queue_dequeue(heap, q).p # 0

\* a dequeue has taken the only element of a queue, from its back list, and
\* returned a queue whose dequeue fails
C20_Witness ==
    /\ kind = "Queue" /\ status = "ok" /\ last.op = "dequeue"
    /\ Queue_len(heap, vers[1]) = 0
    /\ Queue_dequeue(heap, vers[1]).p = 0

(***************************************************************************)
(* The algebra of List: push, pop, top, rev, len and to_vec on every list  *)
(* of the heap (the versions of the slots, their suffixes, and the two     *)
(* lists of every queue).                                                  *)
(***************************************************************************)
NoCells == [p \in Cells |-> FreeCell]

\* List::empty().push(e1)...push(en), every intermediate list being dropped
RECURSIVE PushAll(_, _, _)
PushAll(c, x, es) ==
    IF es = <<>> THEN [c |-> c, p |-> x]
    ELSE LET r == List_push(c, x, Head(es))
         IN  PushAll(List_drop(r.c, x), r.p, Tail(es))

ElemSeqs == UNION {[1..n -> Elems] : n \in 0..MaxLen}

\* C21: for every list l and element e, l.push(e).top() is e,
\* l.push(e).pop().to_vec() is l.to_vec() and l.push(e).len() is l.len() + 1;
\* pushing e1..en onto the empty list gives a list whose to_vec() is
\* <<en, ..., e1>>.
C21_PushPopTop ==
    /\ kind \in HeapKinds =>
           \A l \in ListCells, e \in Elems :
               LET r == List_push(heap, l, e)
                   q == List_pop(r.c, r.p)
               IN  /\ ~List_top(r.c, r.p).panic
                   /\ List_top(r.c, r.p).e = e
                   /\ q.p # 0
                   /\ List_to_vec(q.c, q.p) = List_to_vec(heap, l)
                   /\ List_len(r.c, r.p) = List_len(heap, l) + 1
    /\ \A es \in ElemSeqs :
           LET n == List_empty(NoCells)
               r == PushAll(n.c, n.p, es)
           IN  List_to_vec(r.c, r.p) = Reverse(es)

\* a push has made a list of MaxLen elements, not all the same
C21_Witness ==
    /\ kind = "List" /\ status = "ok" /\ last.op = "push"
    /\ List_len(heap, vers[1]) = MaxLen
    /\ List_to_vec(heap, vers[1])[1] = last.k
    /\ \E n \in 2..MaxLen : List_to_vec(heap, vers[1])[n] # last.k

\* C22: for every list l, l.rev().to_vec() is the reverse of l.to_vec(),
\* l.rev().len() is l.len(), and l.rev().rev().to_vec() is l.to_vec().
C22_Rev ==
    kind \in HeapKinds =>
        \A l \in ListCells :
            LET r == List_rev(heap, l)
                rr == List_rev(r.c, r.p)
            IN  /\ List_to_vec(r.c, r.p) = Reverse(List_to_vec(heap, l))
                /\ List_len(r.c, r.p) = List_len(heap, l)
                /\ List_to_vec(rr.c, rr.p) = List_to_vec(heap, l)

\* a rev has made a list of MaxLen elements that is not its own reverse
C22_Witness ==
    /\ kind = "List" /\ status = "ok" /\ last.op = "rev"
    /\ List_len(heap, vers[1]) = MaxLen
    /\ List_to_vec(heap, vers[1]) # Reverse(List_to_vec(heap, vers[1]))

\* C23: in every list reached by push, pop and rev the length cached in each
\* node is the number of elements of the suffix that the node heads, so
\* len() is the length of to_vec() and is_empty() holds exactly when
\* to_vec() is empty.
C23_CachedLen ==
    kind \in HeapKinds =>
        \A l \in ListCells :
            /\ heap[l].t = "Node" => heap[l].s = Len(List_to_vec(heap, l))
            /\ List_len(heap, l) = Len(List_to_vec(heap, l))
            /\ List_is_empty(heap, l) = (List_to_vec(heap, l) = <<>>)

\* a pop has left a list of MaxLen - 1 elements, each suffix with its length
C23_Witness ==
    /\ kind = "List" /\ status = "ok" /\ last.op = "pop"
    /\ List_len(heap, vers[1]) = MaxLen - 1
    /\ ~List_is_empty(heap, vers[1])
    /\ heap[heap[vers[1]].l].s = MaxLen - 2

(***************************************************************************)
(* remove and insert of a key that changes nothing.                        *)
(***************************************************************************)
Failed(v) == v.n.t \in {"Panic", "Overflow"}

\* C24: remove(k) of a key that a Set, Map, HashSet or HashMap does not hold
\* raises no error and returns a container of the same len() and the same
\* to_vec(), on which exist(k) is false and find(k) is None.
C24_RemoveAbsent ==
    status = "ok" =>
        /\ kind = "Set" =>
               \A k \in ProbeKeys :
                   ~Set_exist(vers[1], k) =>
                       LET r == Set_remove(vers[1], k)
                       IN  /\ ~Failed(r)
                           /\ Set_len(r) = Set_len(vers[1])
                           /\ Set_to_vec(r) = Set_to_vec(vers[1])
                           /\ ~Set_exist(r, k)
        /\ kind = "Map" =>
               \A k \in ProbeKeys :
                   ~Map_exist(vers[1], k) =>
                       LET r == Map_remove(vers[1], k)
                       IN  /\ ~Failed(r)
                           /\ Map_len(r) = Map_len(vers[1])
                           /\ Map_to_vec(r) = Map_to_vec(vers[1])
                           /\ ~Map_exist(r, k)
                           /\ Map_find(r, k) = None
        /\ kind = "HashSet" =>
               \A k \in HashProbeKeys :
                   ~HashSet_exist(vers[1], k) =>
                       LET r == HashSet_remove(vers[1], k)
                       IN  /\ ~Failed(r)
                           /\ HashSet_len(r) = HashSet_len(vers[1])
                           /\ HashSet_to_vec(r) = HashSet_to_vec(vers[1])
                           /\ ~HashSet_exist(r, k)
        /\ kind = "HashMap" =>
               \A k \in HashProbeKeys :
                   ~HashMap_exist(vers[1], k) =>
                       LET r == HashMap_remove(vers[1], k)
                       IN  /\ ~Failed(r)
                           /\ HashMap_len(r) = HashMap_len(vers[1])
                           /\ HashMap_to_vec(r) = HashMap_to_vec(vers[1])
                           /\ ~HashMap_exist(r, k)
                           /\ HashMap_find(r, k) = None

\* a remove of a key that a Map of two keys does not hold, the key lying
\* between the two
C24_Witness ==
    /\ kind = "Map" /\ status = "ok" /\ last.op = "remove" /\ ~last.had
    /\ Map_len(vers[1]) = 2
    /\ \E a, b \in DOMAIN abs[1] : a < last.k /\ last.k < b
    /\ ~Map_exist(vers[1], last.k)

\* C25: HashSet.insert(k) of a key that the set holds returns the set as it
\* is: the same len(), the same to_vec() and the same root handle.
C25_InsertPresent ==
    (kind = "HashSet" /\ status = "ok") =>
        \A k \in HashProbeKeys :
            HashSet_exist(vers[1], k) =>
                LET r == HashSet_insert(vers[1], k)
                IN  /\ ~Failed(r)
                    /\ HashSet_len(r) = HashSet_len(vers[1])
                    /\ HashSet_to_vec(r) = HashSet_to_vec(vers[1])
                    /\ r.at = vers[1].at
                    /\ r.n = vers[1].n

\* an insert of a key that a HashSet of two keys, held in a branch, holds
C25_Witness ==
    /\ kind = "HashSet" /\ status = "ok" /\ last.op = "insert" /\ last.had
    /\ HashSet_len(vers[1]) = 2
    /\ vers[1].n.t = "Node"
    /\ HashSet_exist(vers[1], last.k)

(***************************************************************************)
(* Iteration over a container of any type.                                 *)
(***************************************************************************)
IterOf(c, x) ==
    CASE kind = "List" -> List_iter(c, x)
      [] kind = "Queue" -> Queue_iter(c, x)
      [] kind = "Set" -> [c |-> c, it |-> Set_iter(x)]
      [] kind = "Map" -> [c |-> c, it |-> Map_iter(x)]
      [] kind = "HashSet" -> [c |-> c, it |-> HashSet_iter(x)]
      [] kind = "HashMap" -> [c |-> c, it |-> HashMap_iter(x)]

\* one call of next: the heap, the iterator and the item after it
IterNext(c, it) ==
    CASE kind = "List" -> ListIter_next(c, it) @@ [panic |-> FALSE]
      [] kind = "Queue" -> QueueIter_next(c, it)
      [] kind = "Set" -> SetIter_next(it) @@ [c |-> c, panic |-> FALSE]
      [] kind = "Map" -> MapIter_next(it) @@ [c |-> c, panic |-> FALSE]
      [] kind = "HashSet" -> HSIter_next(it) @@ [c |-> c, panic |-> FALSE]
      [] kind = "HashMap" -> HMIter_next(it) @@ [c |-> c, panic |-> FALSE]

\* the drop of an iterator
IterDrop(c, it) ==
    CASE kind = "List" -> arc_drop(c, it.node)
      [] kind = "Queue" -> arc_drop(c, it.queue)
      [] OTHER -> c

\* the items that next returns until it returns None, at most n of them
RECURSIVE IterCollect(_, _, _)
IterCollect(c, it, n) ==
    LET r == IterNext(c, it)
    IN  IF r.panic \/ r.item = None \/ n = 0
        THEN [c |-> r.c, it |-> r.it, v |-> <<>>, panic |-> r.panic, more |-> r.item # None]
        ELSE LET d == IterCollect(r.c, r.it, n - 1)
             IN  [d EXCEPT !.v = r.item \o @]

ToVec(c, x) ==
    CASE kind = "List" -> List_to_vec(c, x)
      [] kind = "Queue" -> Queue_to_vec(c, x).v
      [] kind = "Set" -> Set_to_vec(x)
      [] kind = "Map" -> Map_to_vec(x)
      [] kind = "HashSet" -> HashSet_to_vec(x)
      [] kind = "HashMap" -> HashMap_to_vec(x)

\* the keys of the items of a keyed container
ItemKeys(v) ==
    IF kind \in {"Map", "HashMap"} THEN [i \in DOMAIN v |-> v[i][1]] ELSE v

\* C26: for every reachable List, Queue, Set, Map, HashSet and HashMap,
\* iter() yields the sequence that to_vec() returns (top first, oldest
\* first, ascending by key, slot by slot depth first), each stored entry
\* once, and then None on every later call; the container is as it was
\* after the iteration, and a second iteration yields the same sequence.
C26_IterIsToVec ==
    status = "ok" =>
        \A s \in Slots :
            LET i == IterOf(heap, vers[s])
                d == IterCollect(i.c, i.it, NCells)
                n1 == IterNext(d.c, d.it)
                n2 == IterNext(n1.c, n1.it)
                j == IterOf(n2.c, vers[s])
                e == IterCollect(j.c, j.it, NCells)
            IN  /\ ~d.panic /\ ~d.more
                /\ d.v = ToVec(heap, vers[s])
                /\ kind \in HeapKinds => d.v = abs[s]
                /\ kind \notin HeapKinds =>
                       /\ Range(ItemKeys(d.v)) = AbsKeys(kind, abs[s])
                       /\ Len(d.v) = Cardinality(AbsKeys(kind, abs[s]))
                /\ n1.item = None /\ n2.item = None
                /\ ~n1.panic /\ ~n2.panic
                /\ ToVec(n2.c, vers[s]) = ToVec(heap, vers[s])
                /\ e.v = d.v /\ ~e.panic /\ ~e.more
                /\ IterDrop(IterDrop(e.c, e.it), n2.it) = heap

\* a HashMap of three keys, two of them in a branch below the root, one of
\* them inserted twice
C26_Witness ==
    /\ kind = "HashMap" /\ status = "ok" /\ last.op = "insert" /\ last.had
    /\ HashMap_len(vers[1]) = 3
    /\ \E x \in 0..(TRIE_SIZE - 1) :
          /\ vers[1].n.t = "Node" /\ vers[1].n.slice[x].t = "Node"
    /\ LET i == HashMap_iter(vers[1])
       IN  HMIter_next(HMIter_next(HMIter_next(i).it).it).item # None

(***************************************************************************)
(* The transforms of the focused subtree.                                  *)
(***************************************************************************)
\* the tree under p after f has replaced the data of its nodes, as
\* TreeValue shows a tree
RECURSIVE AppliedValue(_, _, _)
AppliedValue(c, p, f) ==
    LET kids == {AppliedValue(c, k, f) : k \in c[p].children}
    IN  [data |-> IF f[c[p].data] # 0 THEN f[c[p].data] ELSE c[p].data,
         children |-> [v \in kids |->
                          Cardinality({k \in c[p].children : AppliedValue(c, k, f) = v})]]

\* the nodes of the new path above its focus have the data of the nodes of
\* the old path, and their children off the path are the cells they were
OffPathKept(c, old, h, new) ==
    /\ Len(new) = Len(old)
    /\ \A p \in InUse(c) : h[p] = c[p]
    /\ \A i \in 1..(Len(old) - 1) :
           /\ h[new[i]].data = c[old[i]].data
           /\ h[new[i]].children \ {new[i + 1]} = c[old[i]].children \ {old[i + 1]}
           /\ new[i + 1] \in h[new[i]].children

\* C27: apply_recursive(f) calls f once on the data of the focused node and
\* of each node under it; the tree it returns has the shape of the old
\* tree, the nodes of the focused subtree carry the replacement that f gave
\* for their data, or their old data when f gave none, and every node
\* outside the focused subtree keeps its data.
C27_ApplyRecursive ==
    TreeRuns =>
        \A s \in Slots, f \in DataFns :
            Len(vers[s]) >= 1 =>
                LET n == Focus(vers[s])
                    t == Node_apply_recursive(heap, n, f)
                    r == Path_apply_recursive(heap, vers[s], f)
                IN  /\ Len(t.calls) = Cardinality(Reached(heap, {n}))
                    /\ Range(t.calls) = Reached(heap, {n})
                    /\ r.panic = "" /\ ~r.none
                    /\ TreeValue(r.c, Focus(r.node_vec)) = AppliedValue(heap, n, f)
                    /\ OffPathKept(heap, vers[s], r.c, r.node_vec)

\* apply_recursive has replaced the data of a node under a focus that kept
\* its own data, below a root that has another child
C27_Witness ==
    /\ TreeRuns
    /\ last.op = "apply_recursive" /\ last.ret = "Some"
    /\ Len(vers[1]) = 2
    /\ Cardinality(heap[vers[1][1]].children) = 2
    /\ \E k \in heap[Focus(vers[1])].children : heap[k].data # heap[Focus(vers[1])].data

\* C28: apply(f) returns a path == to the path given when f returns None;
\* when f returns Some(d) it returns a path of the same length whose focus
\* has the data d and the children set of the old focus, and whose other
\* nodes are the nodes of the old path rebuilt, each with its data and its
\* number of children; the assertion of propagate_last_node_change on the
\* number of children never fails.
C28_Apply ==
    /\ kind = "Tree" => last.ret # "assert_children_len"
    /\ TreeRuns =>
           \A s \in Slots, f \in DataFns :
               Len(vers[s]) >= 1 =>
                   LET old == vers[s]
                       d == f[heap[Focus(old)].data]
                       r == Path_apply(heap, old, f)
                       new == r.node_vec
                   IN  /\ r.panic = "" /\ ~r.none
                       /\ \A p \in InUse(heap) : r.c[p] = heap[p]
                       /\ IF d = 0 THEN Path_eq(new, old) /\ r.c = heap
                          ELSE /\ Len(new) = Len(old)
                               /\ r.c[Focus(new)].data = d
                               /\ r.c[Focus(new)].children = heap[Focus(old)].children
                               /\ Focus(new) \notin InUse(heap)
                               /\ \A i \in 1..(Len(old) - 1) :
                                      /\ SpineRebuilt(heap, old, r.c, new, i)
                                      /\ Cardinality(r.c[new[i]].children)
                                             = Cardinality(heap[old[i]].children)

\* apply has run on the focus of a path of length 3, a focus that has a
\* child
C28_Witness ==
    /\ TreeRuns
    /\ last.op = "apply" /\ last.ret = "Some"
    /\ Len(vers[1]) = 3
    /\ heap[Focus(vers[1])].children # {}

\* the data of the nodes from p down to the node n under it
RECURSIVE DownTo(_, _, _)
DownTo(c, p, n) ==
    IF p = n THEN <<c[p].data>>
    ELSE LET k == CHOOSE x \in c[p].children : n \in Reached(c, {x})
         IN  <<c[p].data>> \o DownTo(c, k, n)

\* the places of the trace where the call e was made for the node n
Calls(trace, e, n) == {i \in DOMAIN trace : trace[i].e = e /\ trace[i].n = n}

Call(trace, e, n) == CHOOSE i \in DOMAIN trace : trace[i].e = e /\ trace[i].n = n

\* accumulators that a program may start with
StartAccs == {<<>>} \cup {<<d>> : d \in Data}

\* C29: apply_acc_recursive calls acc.push with the data of a node when it
\* enters the node, before it calls f on the node and before it visits a
\* child of the node, and calls acc.pop after all the children of the node
\* were processed; the accumulator is as deep after the call as before it;
\* f is given the accumulator that holds, over what the caller had put in
\* it, the original data of the nodes from the focus down to the node.
C29_AccOrder ==
    TreeRuns =>
        \A s \in Slots, f \in AccFns, init \in StartAccs :
            Len(vers[s]) >= 1 =>
                LET top == Focus(vers[s])
                    sub == Reached(heap, {top})
                    r == Node_apply_acc_recursive(heap, top, init, f)
                    tr == r.trace
                IN  /\ r.acc = init
                    /\ Len(tr) = 3 * Cardinality(sub)
                    /\ \A n \in sub :
                           /\ Cardinality(Calls(tr, "push", n)) = 1
                           /\ Cardinality(Calls(tr, "f", n)) = 1
                           /\ Cardinality(Calls(tr, "pop", n)) = 1
                           /\ Call(tr, "push", n) < Call(tr, "f", n)
                           /\ Call(tr, "f", n) < Call(tr, "pop", n)
                           /\ tr[Call(tr, "f", n)].acc = init \o DownTo(heap, top, n)
                           /\ Len(tr[Call(tr, "pop", n)].acc)
                                  = Len(tr[Call(tr, "push", n)].acc) - 1
                           /\ \A k \in Reached(heap, heap[n].children) :
                                  /\ Call(tr, "f", n) < Call(tr, "push", k)
                                  /\ Call(tr, "pop", k) < Call(tr, "pop", n)

\* apply_acc_recursive has run on the root of a tree of three levels
C29_Witness ==
    /\ TreeRuns
    /\ last.op = "apply_acc_recursive" /\ last.ret = "Some"
    /\ Len(vers[1]) = 1
    /\ \E k \in heap[Focus(vers[1])].children : heap[k].children # {}

\* C30: remove_all_children on a focus that has a child returns a path of
\* the same length whose focus is a new node with the data of the old focus
\* and no children, and whose other nodes are the nodes of the old path
\* rebuilt, each with its number of children; on a focus without children
\* it returns a path == to the path given.
C30_RemoveAllChildren ==
    TreeRuns =>
        \A s \in Slots :
            Len(vers[s]) >= 1 =>
                LET old == vers[s]
                    r == Path_remove_all_children(heap, old)
                    new == r.node_vec
                IN  /\ r.panic = "" /\ ~r.none
                    /\ \A p \in InUse(heap) : r.c[p] = heap[p]
                    /\ IF heap[Focus(old)].children = {}
                       THEN Path_eq(new, old) /\ r.c = heap
                       ELSE /\ Len(new) = Len(old)
                            /\ Focus(new) \notin InUse(heap)
                            /\ r.c[Focus(new)].data = heap[Focus(old)].data
                            /\ r.c[Focus(new)].children = {}
                            /\ \A i \in 1..(Len(old) - 1) :
                                   /\ SpineRebuilt(heap, old, r.c, new, i)
                                   /\ Cardinality(r.c[new[i]].children)
                                          = Cardinality(heap[old[i]].children)

\* remove_all_children has taken the children of a focus below the root,
\* and the root has kept its two children
C30_Witness ==
    /\ TreeRuns
    /\ last.op = "remove_all_children" /\ last.ret = "Some"
    /\ Len(vers[1]) = 2
    /\ heap[Focus(vers[1])].children = {}
    /\ Cardinality(heap[vers[1][1]].children) = 2
    /\ Cardinality(InUse(heap)) = NSlots + 2

(***************************************************************************)
(* set_data on a path of any length.                                       *)
(***************************************************************************)
\* C31: set_data(d) is defined on every path of at least one node: it never
\* fails, and on a root-only path it returns a path of length 1 whose root
\* has the data d.
C31_SetDataDefined ==
    TreeRuns =>
        \A s \in Slots, d \in Data :
            Len(vers[s]) >= 1 =>
                LET r == PathPriv_set_data(heap, vers[s], d)
                IN  /\ r.panic = ""
                    /\ Len(vers[s]) = 1 =>
                           /\ Len(r.node_vec) = 1
                           /\ r.c[r.node_vec[1]].data = d

(***************************************************************************)
(* The shape of the hash tries of HashSet and HashMap.                     *)
(***************************************************************************)
TrieSlots == 0..(TRIE_SIZE - 1)

\* the number of One entries in the trie h
RECURSIVE Singletons(_)
Singletons(h) ==
    CASE h.t = "One" -> 1
      [] h.t = "Node" ->
            LET RECURSIVE sum(_)
                sum(i) == IF i = TRIE_SIZE THEN 0
                          ELSE Singletons(h.slice[i]) + sum(i + 1)
            IN  sum(0)
      [] OTHER -> 0

\* every Node of the trie h stores the number of One entries below it, and
\* has at least one
RECURSIVE BranchesCounted(_)
BranchesCounted(h) ==
    h.t = "Node" =>
        /\ h.size = Singletons(h)
        /\ h.size > 0
        /\ \A i \in TrieSlots : BranchesCounted(h.slice[i])

\* C32: in every hash trie reached by inserts and removes, the count that a
\* Branch stores is the number of Singleton entries below it (a remove below
\* a sub-branch decrements the count of every Branch on its path), and no
\* Branch without an entry below it remains.
C32_BranchCounts ==
    (kind \in HashKinds /\ status = "ok") =>
        \A s \in Slots : BranchesCounted(vers[s].n)

\* the One entries stored in the trie h
RECURSIVE Ones(_)
Ones(h) ==
    CASE h.t = "One" -> {h}
      [] h.t = "Node" -> UNION {Ones(h.slice[i]) : i \in TrieSlots}
      [] OTHER -> {}

\* every One below h, a node entered with the shift l, stores the hash of
\* its key and lies in the slot that its hash selects at the shift of the
\* Node that holds it
RECURSIVE SlotsIndexed(_, _)
SlotsIndexed(h, l) ==
    CASE h.t = "One" -> h.h = hash(h.k)
      [] h.t = "Node" ->
            \A i \in TrieSlots :
                /\ h.slice[i].t = "One" => BitsValue(h.slice[i].h, l, TRIE_BITS) = i
                /\ SlotsIndexed(h.slice[i], l + TRIE_BITS)
      [] OTHER -> TRUE

\* C33: in every reachable hash trie a One in slot i of a Node at depth d has
\* (stored hash >> (d * TRIE_BITS)) & TRIE_MASK = i and stores hash(key), and
\* exist and find, descending by slot index, reach every stored key.
C33_SlotsIndexed ==
    (kind \in HashKinds /\ status = "ok") =>
        \A s \in Slots :
            /\ SlotsIndexed(vers[s].n, 0)
            /\ \A e \in Ones(vers[s].n) :
                   IF kind = "HashSet"
                   THEN HashSetNode_exist(vers[s].n, 0, e.k)
                   ELSE /\ HashMapNode_exist(vers[s].n, 0, e.k)
                        /\ HashMapNode_find(vers[s].n, 0, e.k) = Some(e.v)

\* an insert has built a trie with a One in a Node below the root Node
C33_Witness ==
    /\ kind \in HashKinds /\ status = "ok" /\ last.op = "insert"
    /\ vers[last.dst].n.t = "Node"
    /\ \E i, j \in TrieSlots :
           /\ vers[last.dst].n.slice[i].t = "Node"
           /\ vers[last.dst].n.slice[i].slice[j].t = "One"

(***************************************************************************)
(* hashset.rs, hashmap.rs with the slices on the heap: a Node holds the    *)
(* handle of its array of TRIE_SIZE children, Arc<[N; TRIE_SIZE]>, and     *)
(* every Arc::new(slice) takes a cell.  The operators are those of the     *)
(* sections above, with the heap passed through.                           *)
(***************************************************************************)
Slice(slots) == [t |-> "Slice", slots |-> slots]

\* the trie h of the sections above, placed on the heap c: every Node's
\* array takes a cell, children first
RECURSIVE Stored(_, _), StoredSlots(_, _, _)
Stored(c, h) ==
    IF h.t # "Node" THEN [c |-> c, n |-> h]
    ELSE LET f == StoredSlots(c, h.slice, {i \in DOMAIN h.slice : h.slice[i].t = "Node"})
             a == arc_new(f.c, Slice(f.slots))
         IN  [c |-> a.c, n |-> [h EXCEPT !.slice = a.p]]

\* the Node children in the slots todo placed on the heap, lowest slot first
StoredSlots(c, slots, todo) ==
    IF todo = {} THEN [c |-> c, slots |-> slots]
    ELSE LET i == CHOOSE j \in todo : \A m \in todo : j <= m
             r == Stored(c, slots[i])
         IN  StoredSlots(r.c, [slots EXCEPT ![i] = r.n], todo \ {i})

\* the trie that the node n of the heap c stands for
RECURSIVE Loaded(_, _)
Loaded(c, n) ==
    IF n.t # "Node" THEN n
    ELSE [n EXCEPT !.slice = [i \in 0..(TRIE_SIZE - 1) |-> Loaded(c, c[n.slice].slots[i])]]

\* d counts the nested calls of insert
RECURSIVE ArcHashSetNode_insert(_, _, _, _, _)
ArcHashSetNode_insert(c, h, l, k, d) ==
    IF d > StackFrames THEN [o |-> "Overflow", c |-> c]
    ELSE
    LET kh == hash(k)
        idx == slot_index(kh, l)
    IN  CASE h.t = "Empty" -> [o |-> "Some", n |-> HashSetNode_One(kh, k), c |-> c]
          [] h.t = "One" ->
                IF kh = h.h /\ k = h.k THEN [o |-> "None", c |-> c]
                ELSE
                LET slice == [HashSetNode_new_empty_slice EXCEPT ![idx] = HashSetNode_One(kh, k)]
                    idx2 == slot_index(h.h, l)
                IN  IF idx2 # idx
                    THEN LET a == arc_new(c, Slice([slice EXCEPT ![idx2] = HashSetNode_One(h.h, h.k)]))
                         IN  [o |-> "Some", n |-> HashSetNode_Node(2, a.p), c |-> a.c]
                    ELSE LET a == arc_new(c, Slice(slice))
                             n == HashSetNode_Node(1, a.p)
                             r == ArcHashSetNode_insert(a.c, n, l, h.k, d + 1)
                         IN  IF r.o = "None" THEN [o |-> "Some", n |-> n, c |-> r.c] ELSE r
          [] h.t = "Node" ->
                LET r == ArcHashSetNode_insert(c, c[h.slice].slots[idx], l + TRIE_BITS, k, d + 1)
                IN  IF r.o = "Some"
                    THEN LET a == arc_new(r.c, Slice([c[h.slice].slots EXCEPT ![idx] = r.n]))
                         IN  [o |-> "Some", n |-> HashSetNode_Node(h.size + 1, a.p), c |-> a.c]
                    ELSE r

RECURSIVE ArcHashSetNode_remove(_, _, _, _)
ArcHashSetNode_remove(c, h, l, k) ==
    LET kh == hash(k)
        idx == slot_index(kh, l)
    IN  CASE h.t = "Empty" -> [o |-> "None", c |-> c]
          [] h.t = "One" ->
                IF kh = h.h /\ k = h.k THEN [o |-> "Some", n |-> HashSetNode_Empty, c |-> c]
                ELSE [o |-> "None", c |-> c]
          [] h.t = "Node" ->
                LET r == ArcHashSetNode_remove(c, c[h.slice].slots[idx], l + TRIE_BITS, k)
                IN  IF r.o = "None" THEN r
                    ELSE IF r.n.t = "Empty" /\ h.size = 1 THEN r
                    ELSE LET new_size == IF r.n.t = "Empty" THEN h.size - 1 ELSE h.size
                             a == arc_new(r.c, Slice([c[h.slice].slots EXCEPT ![idx] = r.n]))
                         IN  [o |-> "Some", n |-> HashSetNode_Node(new_size, a.p), c |-> a.c]

ArcHashSet_remove(c, s, k) ==
    LET r == ArcHashSetNode_remove(c, s.n, 0, k)
    IN  IF r.o = "Some" THEN [c |-> r.c, n |-> r.n, count |-> s.count - 1]
        ELSE [c |-> r.c, n |-> s.n, count |-> s.count]

ArcHashSet_insert(c, s, k) ==
    LET r == ArcHashSetNode_insert(c, s.n, 0, k, 1)
    IN  CASE r.o = "Some" -> [c |-> r.c, n |-> r.n, count |-> s.count + 1]
          [] r.o = "None" -> [c |-> r.c, n |-> s.n, count |-> s.count]
          [] OTHER -> [c |-> r.c, n |-> OverflowNode, count |-> s.count]

\* d counts the nested calls of insert
RECURSIVE ArcHashMapNode_insert(_, _, _, _, _, _)
ArcHashMapNode_insert(c, h, l, k, v, d) ==
    IF d > StackFrames THEN [o |-> "Overflow", c |-> c]
    ELSE
    LET kh == hash(k)
        idx == slot_index(kh, l)
    IN  CASE h.t = "Empty" -> [o |-> "Some", n |-> HashMapNode_One(kh, k, v), c |-> c]
          [] h.t = "One" ->
                IF kh = h.h /\ k = h.k THEN [o |-> "None", c |-> c]
                ELSE
                LET slice == [HashMapNode_new_empty_slice EXCEPT ![idx] = HashMapNode_One(kh, k, v)]
                    idx2 == slot_index(h.h, l)
                IN  IF idx2 # idx
                    THEN LET a == arc_new(c, Slice([slice EXCEPT ![idx2] = HashMapNode_One(h.h, h.k, h.v)]))
                         IN  [o |-> "Some", n |-> HashMapNode_Node(2, a.p), c |-> a.c]
                    ELSE LET a == arc_new(c, Slice(slice))
                             n == HashMapNode_Node(1, a.p)
                             r == ArcHashMapNode_insert(a.c, n, l, h.k, h.v, d + 1)
                         IN  IF r.o = "None" THEN [o |-> "Some", n |-> n, c |-> r.c] ELSE r
          [] h.t = "Node" ->
                LET r == ArcHashMapNode_insert(c, c[h.slice].slots[idx], l + TRIE_BITS, k, v, d + 1)
                IN  IF r.o = "Some"
                    THEN LET a == arc_new(r.c, Slice([c[h.slice].slots EXCEPT ![idx] = r.n]))
                         IN  [o |-> "Some", n |-> HashMapNode_Node(h.size + 1, a.p), c |-> a.c]
                    ELSE r

RECURSIVE ArcHashMapNode_remove(_, _, _, _)
ArcHashMapNode_remove(c, h, l, k) ==
    LET kh == hash(k)
        idx == slot_index(kh, l)
    IN  CASE h.t = "Empty" -> [o |-> "None", c |-> c]
          [] h.t = "One" ->
                IF kh = h.h /\ k = h.k THEN [o |-> "Some", n |-> HashMapNode_Empty, c |-> c]
                ELSE [o |-> "None", c |-> c]
          [] h.t = "Node" ->
                LET r == ArcHashMapNode_remove(c, c[h.slice].slots[idx], l + TRIE_BITS, k)
                IN  IF r.o = "None" THEN r
                    ELSE IF r.n.t = "Empty" /\ h.size = 1 THEN r
                    ELSE LET new_size == IF r.n.t = "Empty" THEN h.size - 1 ELSE h.size
                             a == arc_new(r.c, Slice([c[h.slice].slots EXCEPT ![idx] = r.n]))
                         IN  [o |-> "Some", n |-> HashMapNode_Node(new_size, a.p), c |-> a.c]

\* a remove that returns a copy of the whole trie
ArcHashMap_remove_copied(c, s, k) ==
    LET r == ArcHashMapNode_remove(c, s.n, 0, k)
    IN  IF r.o = "Some"
        THEN LET copy == Stored(r.c, Loaded(r.c, r.n))
             IN  [c |-> copy.c, n |-> copy.n, count |-> s.count - 1]
        ELSE [c |-> r.c, n |-> s.n, count |-> s.count]

ArcHashMap_remove(c, s, k) ==
    LET r == ArcHashMapNode_remove(c, s.n, 0, k)
    IN  IF r.o = "Some" THEN [c |-> r.c, n |-> r.n, count |-> s.count - 1]
        ELSE [c |-> r.c, n |-> s.n, count |-> s.count]

ArcHashMap_insert(c, s, k, v) ==
    LET r == ArcHashMapNode_insert(c, s.n, 0, k, v, 1)
    IN  CASE r.o = "Some" -> [c |-> r.c, n |-> r.n, count |-> s.count + 1]
          [] r.o = "None" ->
                \* the key is already found, overwrite it
                LET m == ArcHashMap_remove(r.c, s, k)
                    r2 == ArcHashMapNode_insert(m.c, m.n, 0, k, v, 1)
                IN  CASE r2.o = "Some" -> [c |-> r2.c, n |-> r2.n, count |-> s.count]
                      [] r2.o = "None" -> [c |-> r2.c, n |-> PanicNode, count |-> s.count]
                      [] OTHER -> [c |-> r2.c, n |-> OverflowNode, count |-> s.count]
          [] OTHER -> [c |-> r.c, n |-> OverflowNode, count |-> s.count]

(***************************************************************************)
(* Path copying in the hash tries.                                         *)
(***************************************************************************)
\* the handles of the arrays reachable from the node n
RECURSIVE Arrays(_, _)
Arrays(c, n) ==
    IF n.t # "Node" THEN {}
    ELSE {n.slice} \cup UNION {Arrays(c, c[n.slice].slots[i]) : i \in TrieSlots}

\* the handles of the arrays on the way from the node n, entered with the
\* shift l, to the slot of the key k
RECURSIVE PathArrays(_, _, _, _)
PathArrays(c, n, l, k) ==
    IF n.t # "Node" THEN {}
    ELSE {n.slice} \cup
         PathArrays(c, c[n.slice].slots[slot_index(hash(k), l)], l + TRIE_BITS, k)

\* along the way to the slot of k, every other slot of a Node of the new
\* version holds what the slot of the old version holds, handle included
RECURSIVE OffPathShared(_, _, _, _, _)
OffPathShared(c, old, new, l, k) ==
    (old.t = "Node" /\ new.t = "Node") =>
        LET idx == slot_index(hash(k), l)
        IN  /\ \A i \in TrieSlots \ {idx} :
                   c[new.slice].slots[i] = c[old.slice].slots[i]
            /\ OffPathShared(c, c[old.slice].slots[idx], c[new.slice].slots[idx],
                             l + TRIE_BITS, k)

\* r is the result, on the heap, of an operation with the key k on the
\* version old of the heap c, and val the trie that the operation returns
PathCopied(c, old, r, k, val) ==
    /\ Loaded(r.c, r.n) = val
    /\ \A p \in Arrays(c, old) : r.c[p] = c[p]
    /\ (Arrays(r.c, r.n) \ Arrays(c, old)) \subseteq PathArrays(r.c, r.n, 0, k)
    /\ OffPathShared(r.c, old, r.n, 0, k)

\* the keys that no insert fails on: those whose hash no smaller key has
SliceKeys == {k \in HKeys : \A j \in HKeys : j < k => hash(j) # hash(k)}

NextSlices ==
    \/ \E k \in SliceKeys : HashSetInsert(1, 1, k)
    \/ \E k \in SliceKeys : HashSetRemove(1, 1, k)
    \/ \E k \in SliceKeys, v \in Vals : HashMapInsert(1, 1, k, v)
    \/ \E k \in SliceKeys : HashMapRemove(1, 1, k)

SpecSlices == InitOf(HashKinds) /\ [][NextSlices]_vars

\* C34: an insert or remove of HashSet and HashMap that returns leaves the
\* arrays of the old version as they are, and the only arrays of the new
\* version that the old one does not hold lie on the way from the root to
\* the slot of the key; every other slot on that way holds the node of the
\* old version, the handle of its array included.
C34_PathCopied ==
    (kind \in HashKinds /\ status = "ok") =>
        \A st \in {Stored(NoCells, vers[1].n)} :
            LET old == [n |-> st.n, count |-> vers[1].count]
            IN  \A k \in SliceKeys :
                    IF kind = "HashSet"
                    THEN /\ ~Failed(HashSet_insert(vers[1], k)) =>
                                \A r \in {ArcHashSet_insert(st.c, old, k)} :
                                    PathCopied(st.c, st.n, r, k, HashSet_insert(vers[1], k).n)
                         /\ \A r \in {ArcHashSet_remove(st.c, old, k)} :
                                PathCopied(st.c, st.n, r, k, HashSet_remove(vers[1], k).n)
                    ELSE /\ \A v \in Vals :
                                ~Failed(HashMap_insert(vers[1], k, v)) =>
                                    \A r \in {ArcHashMap_insert(st.c, old, k, v)} :
                                        PathCopied(st.c, st.n, r, k,
                                                   HashMap_insert(vers[1], k, v).n)
                         /\ \A r \in {ArcHashMap_remove(st.c, old, k)} :
                                PathCopied(st.c, st.n, r, k, HashMap_remove(vers[1], k).n)

\* a version with a key in a root slot of its own beside a Node of two keys:
\* an operation with that key passes by the array of the Node
C34_Witness ==
    /\ kind \in HashKinds /\ status = "ok" /\ last.op = "insert"
    /\ vers[1].n.t = "Node"
    /\ \E i \in TrieSlots \ {slot_index(hash(last.k), 0)} : vers[1].n.slice[i].t = "Node"

(***************************************************************************)
(* The depth of a hash trie whose keys have pairwise distinct hashes: keys *)
(* that agree in the sixty low bits of their hashes.                       *)
(***************************************************************************)
WideKeys == {1, 2, 11, 13}

NextWide ==
    \/ \E k \in WideKeys : HashSetInsert(1, 1, k)
    \/ \E k \in WideKeys : HashSetRemove(1, 1, k)
    \/ \E k \in WideKeys, v \in Vals : HashMapInsert(1, 1, k, v)
    \/ \E k \in WideKeys : HashMapRemove(1, 1, k)

SpecWide == InitOf(HashKinds) /\ [][NextWide]_vars

\* the shifts with which the Nodes of the trie h, entered with the shift l,
\* are entered
RECURSIVE NodeShifts(_, _)
NodeShifts(h, l) ==
    IF h.t # "Node" THEN {}
    ELSE {l} \cup UNION {NodeShifts(h.slice[i], l + TRIE_BITS) : i \in DOMAIN h.slice}

\* the shift passed to the last call of find, exist and remove with the key k
\* on the trie h entered with the shift l: the Node arm passes l + TRIE_BITS
\* to the call on the slot of k
RECURSIVE LastShift(_, _, _)
LastShift(h, l, k) ==
    IF h.t # "Node" THEN l
    ELSE LastShift(h.slice[slot_index(hash(k), l)], l + TRIE_BITS, k)

\* C35 (as stated): with keys of pairwise distinct hashes, the shift passed
\* to a call never exceeds 60, so that wrapping_shr never wraps around.
C35_ShiftAtMost60 ==
    (kind \in HashKinds /\ status = "ok") =>
        \A k \in WideKeys :
            /\ LastShift(vers[1].n, 0, k) <= 60
            /\ LastShift(vers[1].n, 0, k) < UsizeBits

\* C35 (amended): with keys of pairwise distinct hashes no operation exhausts
\* the stack, every Node is entered with a shift of at most 60 (13 levels of
\* Nodes), and the shift passed to a call is at most 65: the call on a slot
\* of a Node of shift 60 gets 65, which wrapping_shr wraps to 1, and finds
\* Empty or a One there, so that the wrapped index is never used; l +
\* TRIE_BITS stays below 2^16, far from the width of u32.
C35_NodeShiftAtMost60 ==
    kind \in HashKinds =>
        /\ status = "ok"
        /\ \A l \in NodeShifts(vers[1].n, 0) : l <= 60
        /\ \A k \in WideKeys :
               /\ LastShift(vers[1].n, 0, k) <= 65
               /\ LastShift(vers[1].n, 0, k) + TRIE_BITS < Pow2(16)

\* an insert has built Nodes down to the shift 60 for two keys that differ
\* in the four highest bits of their hashes only
C35_Witness ==
    /\ kind \in HashKinds /\ status = "ok" /\ last.op = "insert"
    /\ 60 \in NodeShifts(vers[1].n, 0)
    /\ \E k \in WideKeys : LastShift(vers[1].n, 0, k) = 65

(***************************************************************************)
(* Reversals in a queue used linearly.  Beside each queued element the     *)
(* content abs[1] keeps the number of reversals it has taken part in: a    *)
(* dequeue whose rev() copied n elements counts one reversal for the n     *)
(* elements enqueued last.                                                 *)
(***************************************************************************)
MaxQueue == 4

QueueEnqueueCounted(e) ==
    /\ kind = "Queue" /\ status = "ok"
    /\ Queue_len(heap, vers[1]) < MaxQueue
    /\ CommitHeap(1, Queue_enqueue(heap, vers[1], e),
                  Append(abs[1], [e |-> e, revs |-> 0]),
                  Op("enqueue", 1, 1, e, 0, FALSE, 0))

QueueDequeueCounted ==
    /\ kind = "Queue" /\ status = "ok"
    /\ LET r == Queue_dequeue(heap, vers[1])
           len == Len(abs[1])
           counted == [i \in 1..len |->
                          IF i > len - r.rev THEN [abs[1][i] EXCEPT !.revs = @ + 1]
                          ELSE abs[1][i]]
       IN  CommitHeap(1, r, Rest(counted),
                      Op("dequeue", 1, 1, IF len = 0 THEN 0 ELSE counted[1].revs,
                         0, FALSE, r.e))

NextReversal ==
    \/ \E e \in Elems : QueueEnqueueCounted(e)
    \/ QueueDequeueCounted

SpecReversal == InitOf({"Queue"}) /\ [][NextReversal]_vars

\* C36: in a history that applies every enqueue and dequeue to the latest
\* version of the queue, a dequeue returns an element that has taken part in
\* exactly one reversal, and no queued element has taken part in more than
\* one: the elements of the front list have been reversed once, those of
\* the back list not yet.
C36_OneReversal ==
    (kind = "Queue" /\ status = "ok") =>
        LET q == heap[vers[1]]
            front == IF q.t = "QEmpty" THEN 0 ELSE List_len(heap, q.front)
        IN  /\ last.op = "dequeue" => last.k = 1
            /\ Queue_to_vec(heap, vers[1]).v = [i \in DOMAIN abs[1] |-> abs[1][i].e]
            /\ \A i \in DOMAIN abs[1] :
                   abs[1][i].revs = (IF i <= front THEN 1 ELSE 0)

\* a dequeue has reversed a back list of at least two elements, and a later
\* dequeue has taken an element from the front list
C36_Witness ==
    /\ kind = "Queue" /\ status = "ok" /\ last.op = "dequeue" /\ last.k = 1
    /\ heap[vers[1]].t = "QNode"
    /\ List_len(heap, heap[vers[1]].front) >= 1
    /\ List_len(heap, heap[vers[1]].back) >= 1
    /\ Queue_dequeue(heap, vers[1]).rev = 0

(***************************************************************************)
(* Cached heights of the Set and Map trees.                                *)
(***************************************************************************)
\* the height of the tree t, counted from its shape
RECURSIVE TrueHeight(_)
TrueHeight(t) ==
    CASE t.t = "Node" -> 1 + Max(TrueHeight(t.l), TrueHeight(t.r))
      [] t.t = "One" -> 1
      [] OTHER -> 0

\* every Node of t caches its height and has a child that is not Empty
RECURSIVE HeightsCached(_)
HeightsCached(t) ==
    t.t = "Node" =>
        /\ t.h = 1 + Max(TrueHeight(t.l), TrueHeight(t.r))
        /\ ~(t.l.t = "Empty" /\ t.r.t = "Empty")
        /\ HeightsCached(t.l)
        /\ HeightsCached(t.r)

\* C37: at every Node of a reachable Set or Map tree the cached height is
\* 1 + max of the heights of its children (Empty 0, One 1), no Node has two
\* Empty children, and height() returns the height of the tree.
C37_HeightsCached ==
    (kind \in OrderedKinds /\ status = "ok") =>
        \A s \in Slots :
            /\ HeightsCached(vers[s].n)
            /\ (IF kind = "Set" THEN Set_height(vers[s]) ELSE Map_height(vers[s]))
                   = TrueHeight(vers[s].n)

\* a remove has left a tree of height 3 or more
C37_Witness ==
    /\ kind \in OrderedKinds /\ status = "ok" /\ last.op = "remove" /\ last.had
    /\ vers[1].n.t = "Node" /\ vers[1].n.h >= 3

(***************************************************************************)
(* Map over the keys of Set: trees deep enough for a remove whose          *)
(* successor is not the right child itself.                                *)
(***************************************************************************)
NextMapDeep ==
    \/ \E k \in Keys, v \in Vals : MapInsert(1, 1, k, v)
    \/ \E k \in Keys : MapRemove(1, 1, k)

SpecMapDeep == InitOf({"Map"}) /\ [][NextMapDeep]_vars

\* the pairs of the sequence ps whose key is not k
RECURSIVE WithoutKey(_, _)
WithoutKey(ps, k) ==
    IF ps = <<>> THEN <<>>
    ELSE IF Head(ps)[1] = k THEN WithoutKey(Tail(ps), k)
    ELSE <<Head(ps)>> \o WithoutKey(Tail(ps), k)

\* C38: Map.remove(k) returns a map in which every other key is bound to the
\* value it had and k is not bound: its pairs are the old pairs without the
\* pair of k, also when the removed node has two children and the pair of
\* the leftmost node of its right subtree takes its place.
C38_RemoveKeepsOthers ==
    (kind = "Map" /\ status = "ok") =>
        \A s \in Slots, k \in Keys :
            LET r == Map_remove(vers[s], k)
            IN  /\ ~Failed(r)
                /\ Map_find(r, k) = None
                /\ \A j \in Keys \ {k} : Map_find(r, j) = Map_find(vers[s], j)
                /\ Map_to_vec(r) = WithoutKey(Map_to_vec(vers[s]), k)

\* after a remove, a tree whose root has two children and whose right subtree
\* has a left child: the remove of the root key moves up the pair of a node
\* below the right child, of another value than the root
C38_Witness ==
    /\ kind = "Map" /\ status = "ok" /\ last.op = "remove"
    /\ vers[1].n.t = "Node"
    /\ vers[1].n.l.t # "Empty"
    /\ vers[1].n.r.t = "Node"
    /\ vers[1].n.r.l.t # "Empty"
    /\ MapNode_splice_out_successor(vers[1].n.r).v # vers[1].n.v

(***************************************************************************)
(* The drop of a List or Queue version beside other live versions.         *)
(***************************************************************************)
\* the cells that the handles S reach
RECURSIVE LiveFrom(_, _)
LiveFrom(c, S) ==
    LET T == S \cup {c[p].l : p \in {q \in S : c[q].t = "Node"}}
               \cup {c[p].back : p \in {q \in S : c[q].t = "QNode"}}
               \cup {c[p].front : p \in {q \in S : c[q].t = "QNode"}}
    IN  IF T = S THEN S ELSE LiveFrom(c, T)

\* what the version x of the heap c shows: its length and its elements
Shown(c, x) ==
    IF kind = "List" THEN <<List_len(c, x), List_to_vec(c, x)>>
    ELSE <<Queue_len(c, x), Queue_to_vec(c, x).v>>

\* C39: the drop of a version frees only cells of reference count 1, takes
\* one reference from a cell that others hold too and goes no further (at
\* most one such cell for each list dropped), and changes no cell that
\* another live version reaches in anything but its count: every other live
\* version keeps its len() and its contents, and no live version reaches a
\* freed cell.
C39_DropStopsAtShared ==
    (kind \in HeapKinds /\ status = "ok") =>
        /\ \A p \in LiveFrom(heap, {vers[t] : t \in Slots}) : heap[p].t # "Free"
        /\ \A s \in Slots :
            LET c2 == Version_drop(heap, vers[s])
                others == {vers[t] : t \in Slots \ {s}}
                taken == {p \in Cells : heap[p].t # "Free" /\ heap[p].rc > 1
                                            /\ c2[p] # heap[p]}
            IN  /\ \A p \in Cells :
                       heap[p].t # "Free" =>
                           \/ c2[p] = heap[p]
                           \/ heap[p].rc > 1 /\ c2[p] = [heap[p] EXCEPT !.rc = @ - 1]
                           \/ heap[p].rc = 1 /\ c2[p] = FreeCell
                /\ Cardinality(taken) <= (IF kind = "List" THEN 1 ELSE 2)
                /\ \A p \in LiveFrom(heap, others) :
                       /\ c2[p].t = heap[p].t
                       /\ [c2[p] EXCEPT !.rc = 0] = [heap[p] EXCEPT !.rc = 0]
                /\ \A x \in others : Shown(c2, x) = Shown(heap, x)

\* a list whose first node only the version of slot 1 holds and whose tail
\* is the list of slot 2, of one element or more
C39_Witness ==
    /\ kind = "List" /\ status = "ok" /\ last.op = "push"
    /\ heap[vers[1]].t = "Node" /\ heap[vers[1]].rc = 1
    /\ heap[vers[1]].l = vers[2]
    /\ heap[vers[2]].t = "Node" /\ heap[vers[2]].rc > 1

(***************************************************************************)
(* The arms of set.rs and map.rs marked unreachable.                       *)
(***************************************************************************)
\* C40: no sequence of insert and remove on a Set or Map brings an
\* operation into an unreachable!() arm or into the "internal error" panic
\* of splice_out_successor: no operation of the history has panicked, and
\* insert and remove with any key return a tree from every reachable
\* version (rebalance finds a Node on the side that is more than 2 higher,
\* and a Node as inner grandchild when it rotates twice).
C40_UnreachableArms ==
    kind \in OrderedKinds =>
        /\ status = "ok"
        /\ \A s \in Slots, k \in Keys :
               IF kind = "Set"
               THEN /\ ~Failed(Set_insert(vers[s], k))
                    /\ ~Failed(Set_remove(vers[s], k))
               ELSE /\ \A v \in Vals : ~Failed(Map_insert(vers[s], k, v))
                    /\ ~Failed(Map_remove(vers[s], k))

\* a version for which the insert of some key makes rebalance rotate twice:
\* the left side grows more than 2 higher than the right side, through its
\* right child
C40_Witness ==
    /\ kind = "Set" /\ status = "ok" /\ last.op \in {"insert", "remove"}
    /\ vers[1].n.t = "Node"
    /\ \E k \in Keys :
           /\ k < vers[1].n.k
           /\ LET l == set_insert(vers[1].n.l, k)
              IN  /\ SetNode_height(l) > SetNode_height(vers[1].n.r) + 2
                  /\ l.t = "Node"
                  /\ SetNode_height(l.r) > SetNode_height(vers[1].n.r) + 1
====
